---- MODULE Spec2Model ----
(***************************************************************************)
(* Model of the desktop wallet's two engineering cores:                    *)
(*   - the Ledger wallet creation sequence of pages/create/create.tsx      *)
(*     (FormCreate: onWalletCreateFinish, onWalletCreateFinishCore, the    *)
(*     Connect checks and the modal handlers), specification SpecCreate;   *)
(*   - the market price resolver CroMarketApi, specification SpecPrice;    *)
(*   - the Ledger asset migration and the session-lock password check of   *)
(*     the HomeLayout component, specifications SpecMigration, SpecLock.   *)
(* Timers are untimed: a pending timer may fire at any later step.         *)
(***************************************************************************)
EXTENDS Integers, Sequences, FiniteSets, TLC

VARIABLES
  \* ---- create.tsx, FormCreate ----
  formWalletType,             \* props.form field walletType
  waitFlag,                   \* module-level let waitFlag
  corePc,                     \* position of onWalletCreateFinishCore
  targetWalletType,           \* createOptions.walletType of the run
  ticks,                      \* loop counter i of the current poll loop
  walletAddress,              \* createdWallet.wallet.address
  assets,                     \* createdWallet.assets
  isModalVisible, isErrorModalVisible,
  isCroModalVisible, isEthModalVisible, isCosmosModalVisible,
  isLedgerCroAppConnected, isLedgerEthAppConnected, isLedgerCosmosAppConnected,
  isLedgerModalButtonLoading, createLoading,
  wallet,                     \* useState<Wallet>: address of the published wallet
  chk,                        \* the running Connect check: [kind, pc, hwok]
  inflight,                   \* device calls issued and not yet settled
  notification,               \* last notification.error message
  \* ---- history of the current run ----
  issued,                     \* device calls the run issued, in order
  settled,                    \* how many of them have settled
  derived,                    \* addresses returned to the run, in order
  failedAt,                   \* which awaited call threw in the run
  thrown,                     \* what detectConditionsError says of the error it threw
  saveCalled,                 \* walletService.saveAssets was called
  saved,                      \* assets handed to a saveAssets that resolved
  published,                  \* the run called setWalletTempBackupSeed / setWallet
  runs,                       \* number of submissions so far
  \* ---- marketApi: CroMarketApi ----
  TokenSlugMap,               \* module-level Map identifier -> slug ("" = no entry)
  tokenSlugMap,               \* this.tokenSlugMap: the directory memo (<< >> = null)
  preloadPc,                  \* the constructor's loadTokenSlugMap().then(..)
  calls,                      \* the running getAssetPrice / getTokenPrices calls
  started,                    \* number of calls started so far
  resolved,                   \* what the getTokenSlug lookups concluded: {[identifier, slug]}
  dirLoaded,                  \* number of /all-tokens fetches that succeeded
  \* ---- HomeLayout ----
  home,                       \* the component's useState / recoil values
  homeChk,                    \* the running checkIsLedger*AppConnected call
  mig,                        \* migrateLedgerAsset: [pc, args, count]
  deviceLog,                  \* outcomes of the device calls of the checks, in order
  lock                        \* session-lock password check and the stored counter

uiVars == <<isModalVisible, isErrorModalVisible, isCroModalVisible,
            isEthModalVisible, isCosmosModalVisible, isLedgerCroAppConnected,
            isLedgerEthAppConnected, isLedgerCosmosAppConnected,
            isLedgerModalButtonLoading, createLoading>>
histVars == <<targetWalletType, issued, settled, derived, failedAt, thrown, saveCalled,
             saved, published>>
createVars == <<formWalletType, waitFlag, corePc, ticks, walletAddress, assets,
                uiVars, wallet, chk, inflight, notification, histVars, runs>>

priceVars == <<TokenSlugMap, tokenSlugMap, preloadPc, calls, started, resolved,
               dirLoaded>>

homeVars == <<home, homeChk, mig, deviceLog, lock>>

vars == <<createVars, priceVars, homeVars>>

\* ------------------------------------------------------------------------
\* Bounds
MaxRuns == 1
\* Ticks of one poll loop; the source loops 600 times (i < 600).
PollLimit == 3

\* ------------------------------------------------------------------------
\* Program constants
NORMAL_WALLET_TYPE == "normal"
LEDGER_WALLET_TYPE == "ledger"

TENDERMINT == "TENDERMINT"
EVM == "EVM"
CRYPTO_ORG == "CRYPTO_ORG"
CRONOS == "CRONOS"
ETHEREUM == "ETHEREUM"
COSMOS_HUB == "COSMOS_HUB"

\* Addresses a device call can return ("" is the empty string).
Addresses(fn) ==
  CASE fn = "getAddress(CRYPTO_ORG)" -> {"", "cro1"}
    [] fn = "getEthAddress" -> {"", "0x1"}
    [] fn = "getAddress(COSMOS_HUB)" -> {"", "cosmos1"}
\* Error texts a device call can throw, by what detectConditionsError says.
DeviceErrors == {"conditions", "other"}

\* The assets WalletCreator.create returns for a new wallet.
DefaultAssets ==
  << [assetType |-> TENDERMINT, mainnetSymbol |-> "CRO",  chainName |-> CRYPTO_ORG, address |-> ""],
     [assetType |-> EVM,        mainnetSymbol |-> "CRO",  chainName |-> CRONOS,     address |-> ""],
     [assetType |-> EVM,        mainnetSymbol |-> "ETH",  chainName |-> ETHEREUM,   address |-> ""],
     [assetType |-> TENDERMINT, mainnetSymbol |-> "ATOM", chainName |-> COSMOS_HUB, address |-> ""] >>

\* Device calls
GetPubKey == "getPubKey"
GetAddressCro == "getAddress(CRYPTO_ORG)"
GetEthAddress == "getEthAddress"
GetAddressCosmos == "getAddress(COSMOS_HUB)"

DeviceCall(by, fn) == [by |-> by, fn |-> fn]

NoCheck == [kind |-> "none", pc |-> "idle", hwok |-> FALSE]

\* ------------------------------------------------------------------------
\* Array helpers

IsCroAsset(a) == a.assetType = TENDERMINT /\ a.mainnetSymbol = "CRO"
IsEvmAsset(a) == a.assetType = EVM
IsAtomAsset(a) == a.assetType = TENDERMINT /\ a.chainName = COSMOS_HUB

\* The filter predicates of onWalletCreateFinishCore, by name.
Matches(a, filter) ==
  CASE filter = "cro" -> IsCroAsset(a)
    [] filter = "evm" -> IsEvmAsset(a)
    [] filter = "atom" -> IsAtomAsset(a)

\* assets.filter(p)[0]: index of the first element satisfying p, 0 if none
FirstIndex(s, filter) ==
  IF \E k \in 1..Len(s) : Matches(s[k], filter)
  THEN CHOOSE k \in 1..Len(s) :
         Matches(s[k], filter) /\ \A j \in 1..(k - 1) : ~Matches(s[j], filter)
  ELSE 0

\* croAsset.address = croAddress
SetCroAddress(as, addr) ==
  [as EXCEPT ![FirstIndex(as, "cro")].address = addr]

\* Variant: only the first EVM asset takes the address.
SetEvmAddress_FirstOnly(as, addr) ==
  [as EXCEPT ![FirstIndex(as, "evm")].address = addr]

\* assets.filter(EVM).forEach(asset.address = ethAddress)
SetEvmAddress(as, addr) ==
  [k \in 1..Len(as) |-> IF IsEvmAsset(as[k]) THEN [as[k] EXCEPT !.address = addr] ELSE as[k]]

\* Variant: every TENDERMINT asset takes the Cosmos Hub address.
SetAtomAddress_AllTendermint(as, addr) ==
  [k \in 1..Len(as) |->
     IF as[k].assetType = TENDERMINT THEN [as[k] EXCEPT !.address = addr] ELSE as[k]]

\* atomAsset.address = cosmosHubAddress
SetAtomAddress(as, addr) ==
  [as EXCEPT ![FirstIndex(as, "atom")].address = addr]

\* ------------------------------------------------------------------------
InitCreateState ==
  /\ formWalletType = NORMAL_WALLET_TYPE
  /\ waitFlag = FALSE
  /\ corePc = "idle"
  /\ ticks = 0
  /\ walletAddress = ""
  /\ assets = << >>
  /\ isModalVisible = FALSE
  /\ isErrorModalVisible = FALSE
  /\ isCroModalVisible = FALSE
  /\ isEthModalVisible = FALSE
  /\ isCosmosModalVisible = FALSE
  /\ isLedgerCroAppConnected = FALSE
  /\ isLedgerEthAppConnected = FALSE
  /\ isLedgerCosmosAppConnected = FALSE
  /\ isLedgerModalButtonLoading = FALSE
  /\ createLoading = FALSE
  /\ wallet = "undefined"
  /\ chk = NoCheck
  /\ inflight = {}
  /\ notification = "none"
  /\ issued = << >>
  /\ settled = 0
  /\ derived = << >>
  /\ failedAt = "none"
  /\ thrown = "none"
  /\ saveCalled = FALSE
  /\ saved = << >>
  /\ published = FALSE
  /\ targetWalletType = "none"
  /\ runs = 0


\* ------------------------------------------------------------------------
\* onWalletCreateFinishCore

CoreRunning == corePc \notin {"idle", "done", "failed"}
NoModalOpen == ~(isModalVisible \/ isErrorModalVisible \/ isCroModalVisible
                 \/ isEthModalVisible \/ isCosmosModalVisible)

\* The synchronous head of onWalletCreateFinishCore, up to the first await:
\* setCreateLoading(true), the two early returns, then WalletCreator.create().
\* fieldsOk: name, walletType, network are set and getSelectedNetwork found a
\* configuration.
CoreBegin(fieldsOk) ==
  /\ createLoading' = TRUE
  /\ corePc' = IF fieldsOk THEN "create" ELSE "idle"
  /\ ticks' = 0
  /\ walletAddress' = ""
  /\ assets' = << >>
  /\ issued' = << >>
  /\ settled' = 0
  /\ derived' = << >>
  /\ failedAt' = "none"
  /\ thrown' = "none"
  /\ saveCalled' = FALSE
  /\ saved' = << >>
  /\ published' = FALSE
  /\ targetWalletType' = formWalletType

\* The catch block of onWalletCreateFinishCore.
CoreCatch(step, err) ==
  /\ corePc' = "failed"
  /\ failedAt' = step
  /\ thrown' = err
  /\ createLoading' = FALSE
  /\ isLedgerCroAppConnected' = FALSE
  /\ isLedgerEthAppConnected' = FALSE
  /\ isLedgerCosmosAppConnected' = FALSE
  /\ isErrorModalVisible' = TRUE

\* The run issues a device call.
CoreIssue(fn) ==
  /\ inflight' = inflight \cup {DeviceCall("core", fn)}
  /\ issued' = Append(issued, fn)

\* A device call of the run settles.
CoreSettle(fn) ==
  /\ DeviceCall("core", fn) \in inflight
  /\ inflight' = inflight \ {DeviceCall("core", fn)}
  /\ settled' = settled + 1

\* onCheckboxChange: the hardware-wallet checkbox sets the walletType field.
\* The checkbox is reachable whenever no modal covers the form, also while a
\* Crypto.org Connect check whose modal was dismissed is still running.
OnCheckboxChange ==
  /\ ~CoreRunning /\ NoModalOpen
  /\ (chk.kind = "none" /\ runs < MaxRuns) \/ chk.kind = "cro"
  /\ formWalletType' = IF formWalletType = NORMAL_WALLET_TYPE
                       THEN LEDGER_WALLET_TYPE ELSE NORMAL_WALLET_TYPE
  /\ UNCHANGED <<waitFlag, corePc, ticks, walletAddress, assets, uiVars, wallet,
                 chk, inflight, notification, histVars, runs>>
  /\ UNCHANGED <<priceVars, homeVars>>

\* onWalletCreateFinish: the form is submitted.  The submit button is disabled
\* while createLoading; one run is modelled at a time.
OnWalletCreateFinish ==
  /\ ~CoreRunning /\ chk.kind = "none" /\ NoModalOpen
  /\ ~createLoading
  /\ runs < MaxRuns
  /\ runs' = runs + 1
  /\ IF formWalletType = NORMAL_WALLET_TYPE
     THEN /\ \E fieldsOk \in BOOLEAN : CoreBegin(fieldsOk)
          /\ UNCHANGED <<isCroModalVisible, isLedgerCroAppConnected>>
     ELSE /\ isCroModalVisible' = TRUE
          /\ isLedgerCroAppConnected' = FALSE
          /\ UNCHANGED <<createLoading, corePc, ticks, walletAddress, assets, histVars>>
  /\ UNCHANGED <<formWalletType, waitFlag, isModalVisible, isErrorModalVisible,
                 isEthModalVisible, isCosmosModalVisible, isLedgerEthAppConnected,
                 isLedgerCosmosAppConnected, isLedgerModalButtonLoading, wallet,
                 chk, inflight, notification>>
  /\ UNCHANGED <<priceVars, homeVars>>

\* Variant: every wallet type goes through the device calls.
CoreCreateOk_AlwaysDevice ==
  /\ corePc = "create"
  /\ assets' = DefaultAssets
  /\ walletAddress' = ""
  /\ corePc' = "croCall"
  /\ CoreIssue(GetAddressCro)
  /\ UNCHANGED saveCalled
  /\ UNCHANGED <<formWalletType, waitFlag, ticks, uiVars, wallet, chk,
                 notification, settled, derived, failedAt, thrown, saved, targetWalletType, published,
                 runs>>
  /\ UNCHANGED <<priceVars, homeVars>>

\* await new WalletCreator(createOptions).create() resolves.  A Ledger wallet
\* goes on to the first device call, a normal wallet straight to saveAssets.
CoreCreateOk ==
  /\ corePc = "create"
  /\ IF targetWalletType = LEDGER_WALLET_TYPE
     THEN /\ assets' = DefaultAssets
          /\ walletAddress' = ""
          /\ corePc' = "croCall"
          /\ CoreIssue(GetAddressCro)
          /\ UNCHANGED saveCalled
     ELSE /\ assets' = [k \in 1..Len(DefaultAssets) |->
                          [DefaultAssets[k] EXCEPT !.address = "soft"]]
          /\ walletAddress' = "soft"
          /\ corePc' = "save"
          /\ saveCalled' = TRUE
          /\ UNCHANGED <<inflight, issued>>
  /\ UNCHANGED <<formWalletType, waitFlag, ticks, uiVars, wallet, chk,
                 notification, settled, derived, failedAt, thrown, saved, targetWalletType, published,
                 runs>>
  /\ UNCHANGED <<priceVars, homeVars>>

\* WalletCreator.create() throws.
CoreCreateFail ==
  /\ corePc = "create"
  /\ CoreCatch("create", "other")
  /\ UNCHANGED <<formWalletType, waitFlag, ticks, walletAddress, assets,
                 isModalVisible, isCroModalVisible, isEthModalVisible,
                 isCosmosModalVisible, isLedgerModalButtonLoading, wallet, chk,
                 inflight, notification, issued, settled, derived, saveCalled,
                 saved, targetWalletType, published,
                 runs>>
  /\ UNCHANGED <<priceVars, homeVars>>

\* Variant: the Cosmos Hub step comes right after the Crypto.org step.
CoreCroOk_CosmosNext ==
  /\ corePc = "croCall"
  /\ CoreSettle(GetAddressCro)
  /\ \E addr \in Addresses(GetAddressCro) :
       /\ derived' = Append(derived, addr)
       /\ assets' = SetCroAddress(assets, addr)
       /\ walletAddress' = addr
  /\ waitFlag' = TRUE
  /\ isCosmosModalVisible' = TRUE
  /\ ticks' = 0
  /\ corePc' = "cosmosWait"
  /\ UNCHANGED <<formWalletType, isModalVisible, isErrorModalVisible,
                 isCroModalVisible, isEthModalVisible, isLedgerCroAppConnected,
                 isLedgerEthAppConnected, isLedgerCosmosAppConnected,
                 isLedgerModalButtonLoading, createLoading, wallet, chk,
                 notification, targetWalletType, issued, failedAt, thrown, saveCalled,
                 saved, published, runs>>
  /\ UNCHANGED <<priceVars, homeVars>>

\* device.getAddress(.., CRYPTO_ORG, ..) returns: the CRO asset and the wallet
\* take the address, the Ethereum modal opens and the first poll loop starts.
CoreCroOk ==
  /\ corePc = "croCall"
  /\ CoreSettle(GetAddressCro)
  /\ \E addr \in Addresses(GetAddressCro) :
       /\ derived' = Append(derived, addr)
       /\ assets' = SetCroAddress(assets, addr)
       /\ walletAddress' = addr
  /\ waitFlag' = TRUE
  /\ isEthModalVisible' = TRUE
  /\ ticks' = 0
  /\ corePc' = "ethWait"
  /\ UNCHANGED <<formWalletType, isModalVisible, isErrorModalVisible,
                 isCroModalVisible, isCosmosModalVisible, isLedgerCroAppConnected,
                 isLedgerEthAppConnected, isLedgerCosmosAppConnected,
                 isLedgerModalButtonLoading, createLoading, wallet, chk,
                 notification, issued, failedAt, thrown, saveCalled, saved, targetWalletType, published,
                 runs>>
  /\ UNCHANGED <<priceVars, homeVars>>

\* Variant: a thrown getEthAddress is swallowed and the run goes on.
CoreDeviceFail_Continue(pc, fn, step) ==
  /\ corePc = pc
  /\ CoreSettle(fn)
  /\ failedAt' = step
  /\ corePc' = IF pc = "ethCall" THEN "ethDelay" ELSE "failed"
  /\ UNCHANGED <<thrown, formWalletType, waitFlag, ticks, walletAddress, assets, uiVars,
                 wallet, chk, notification, targetWalletType, issued, derived,
                 saveCalled, saved, published, runs>>
  /\ UNCHANGED <<priceVars, homeVars>>

\* A device call of the run throws: the catch block runs.
CoreDeviceFail(pc, fn, step) ==
  /\ corePc = pc
  /\ CoreSettle(fn)
  /\ \E err \in DeviceErrors : CoreCatch(step, err)
  /\ UNCHANGED <<formWalletType, waitFlag, ticks, walletAddress, assets,
                 isModalVisible, isCroModalVisible, isEthModalVisible,
                 isCosmosModalVisible, isLedgerModalButtonLoading, wallet, chk,
                 notification, issued, derived, saveCalled, saved, targetWalletType, published,
                 runs>>
  /\ UNCHANGED <<priceVars, homeVars>>

CoreCroFail == CoreDeviceFail("croCall", GetAddressCro, "cro")
CoreEthFail == CoreDeviceFail("ethCall", GetEthAddress, "eth")
CoreCosmosFail == CoreDeviceFail("cosmosCall", GetAddressCosmos, "cosmos")

\* Variant: the loop runs all its ticks whatever the flag says.
LoopEnds_IgnoreFlag == ticks + 1 >= PollLimit

\* The loop `for (i = 0; i < 600; i++) { await delay(100); if (!waitFlag) break; }`
\* leaves after this tick.
LoopEnds == ~waitFlag \/ ticks + 1 >= PollLimit

\* One tick of the Ethereum poll loop; when the loop ends getEthAddress is issued.
CoreEthTick ==
  /\ corePc = "ethWait"
  /\ ticks' = ticks + 1
  /\ IF LoopEnds
     THEN /\ corePc' = "ethCall"
          /\ CoreIssue(GetEthAddress)
     ELSE UNCHANGED <<corePc, inflight, issued>>
  /\ UNCHANGED <<formWalletType, waitFlag, walletAddress, assets, uiVars, wallet,
                 chk, notification, settled, derived, failedAt, thrown, saveCalled,
                 saved, targetWalletType, published,
                 runs>>
  /\ UNCHANGED <<priceVars, homeVars>>

\* Variant: saveAssets is called right after the EVM step.
CoreEthOk_SaveEarly ==
  /\ corePc = "ethCall"
  /\ CoreSettle(GetEthAddress)
  /\ \E addr \in Addresses(GetEthAddress) :
       /\ derived' = Append(derived, addr)
       /\ assets' = SetEvmAddress(assets, addr)
  /\ isLedgerEthAppConnected' = TRUE
  /\ saveCalled' = TRUE
  /\ corePc' = "save"
  /\ UNCHANGED <<formWalletType, waitFlag, ticks, walletAddress, isModalVisible,
                 isErrorModalVisible, isCroModalVisible, isEthModalVisible,
                 isCosmosModalVisible, isLedgerCroAppConnected,
                 isLedgerCosmosAppConnected, isLedgerModalButtonLoading,
                 createLoading, wallet, chk, notification, targetWalletType,
                 issued, failedAt, thrown, saved, published, runs>>
  /\ UNCHANGED <<priceVars, homeVars>>

\* device.getEthAddress returns: every EVM asset takes the address.
CoreEthOk ==
  /\ corePc = "ethCall"
  /\ CoreSettle(GetEthAddress)
  /\ \E addr \in Addresses(GetEthAddress) :
       /\ derived' = Append(derived, addr)
       /\ assets' = SetEvmAddress(assets, addr)
  /\ isLedgerEthAppConnected' = TRUE
  /\ corePc' = "ethDelay"
  /\ UNCHANGED <<formWalletType, waitFlag, ticks, walletAddress, isModalVisible,
                 isErrorModalVisible, isCroModalVisible, isEthModalVisible,
                 isCosmosModalVisible, isLedgerCroAppConnected,
                 isLedgerCosmosAppConnected, isLedgerModalButtonLoading,
                 createLoading, wallet, chk, notification, issued, failedAt, thrown,
                 saveCalled, saved, targetWalletType, published,
                 runs>>
  /\ UNCHANGED <<priceVars, homeVars>>

\* Variant: the second poll loop starts with the flag as the Ethereum step
\* left it.
CoreEthDelayDone_KeepFlag ==
  /\ corePc = "ethDelay"
  /\ isEthModalVisible' = FALSE
  /\ isCosmosModalVisible' = TRUE
  /\ ticks' = 0
  /\ corePc' = "cosmosWait"
  /\ UNCHANGED <<formWalletType, waitFlag, walletAddress, assets, isModalVisible,
                 isErrorModalVisible, isCroModalVisible, isLedgerCroAppConnected,
                 isLedgerEthAppConnected, isLedgerCosmosAppConnected,
                 isLedgerModalButtonLoading, createLoading, wallet, chk,
                 inflight, notification, histVars, runs>>
  /\ UNCHANGED <<priceVars, homeVars>>

\* await delay(3_000) resolves: the Ethereum modal closes, the Cosmos modal
\* opens and the second poll loop starts.
CoreEthDelayDone ==
  /\ corePc = "ethDelay"
  /\ isEthModalVisible' = FALSE
  /\ waitFlag' = TRUE
  /\ isCosmosModalVisible' = TRUE
  /\ ticks' = 0
  /\ corePc' = "cosmosWait"
  /\ UNCHANGED <<formWalletType, walletAddress, assets, isModalVisible,
                 isErrorModalVisible, isCroModalVisible, isLedgerCroAppConnected,
                 isLedgerEthAppConnected, isLedgerCosmosAppConnected,
                 isLedgerModalButtonLoading, createLoading, wallet, chk,
                 inflight, notification, histVars, runs>>
  /\ UNCHANGED <<priceVars, homeVars>>

\* One tick of the Cosmos poll loop; when the loop ends
\* setIsLedgerCosmosAppConnected(true) runs and getAddress(COSMOS_HUB) is issued.
CoreCosmosTick ==
  /\ corePc = "cosmosWait"
  /\ ticks' = ticks + 1
  /\ IF LoopEnds
     THEN /\ corePc' = "cosmosCall"
          /\ isLedgerCosmosAppConnected' = TRUE
          /\ CoreIssue(GetAddressCosmos)
     ELSE UNCHANGED <<corePc, isLedgerCosmosAppConnected, inflight, issued>>
  /\ UNCHANGED <<formWalletType, waitFlag, walletAddress, assets, isModalVisible,
                 isErrorModalVisible, isCroModalVisible, isEthModalVisible,
                 isCosmosModalVisible, isLedgerCroAppConnected,
                 isLedgerEthAppConnected, isLedgerModalButtonLoading,
                 createLoading, wallet, chk, notification, settled, derived,
                 failedAt, thrown, saveCalled, saved, targetWalletType, published,
                 runs>>
  /\ UNCHANGED <<priceVars, homeVars>>

\* device.getAddress(.., COSMOS_HUB, ..) returns: the Cosmos Hub asset takes the
\* address and walletService.saveAssets is called.
CoreCosmosOk ==
  /\ corePc = "cosmosCall"
  /\ CoreSettle(GetAddressCosmos)
  /\ \E addr \in Addresses(GetAddressCosmos) :
       /\ derived' = Append(derived, addr)
       /\ assets' = SetAtomAddress(assets, addr)
  /\ saveCalled' = TRUE
  /\ corePc' = "save"
  /\ UNCHANGED <<formWalletType, waitFlag, ticks, walletAddress, uiVars, wallet,
                 chk, notification, issued, failedAt, thrown, saved, targetWalletType, published,
                 runs>>
  /\ UNCHANGED <<priceVars, homeVars>>

\* await walletService.saveAssets(..) resolves: the wallet is published, the
\* success modal opens and the form is reset.
CoreSaveOk ==
  /\ corePc = "save"
  /\ saved' = assets
  /\ published' = TRUE
  /\ wallet' = walletAddress
  /\ createLoading' = FALSE
  /\ isLedgerCroAppConnected' = FALSE
  /\ isLedgerEthAppConnected' = FALSE
  /\ isLedgerCosmosAppConnected' = FALSE
  /\ isModalVisible' = TRUE
  /\ formWalletType' = NORMAL_WALLET_TYPE
  /\ corePc' = "done"
  /\ UNCHANGED <<waitFlag, ticks, walletAddress, assets, isErrorModalVisible,
                 isCroModalVisible, isEthModalVisible, isCosmosModalVisible,
                 isLedgerModalButtonLoading, chk, inflight, notification, issued,
                 settled, derived, failedAt, thrown, saveCalled, targetWalletType,
                 runs>>
  /\ UNCHANGED <<priceVars, homeVars>>

\* walletService.saveAssets throws.
CoreSaveFail ==
  /\ corePc = "save"
  /\ CoreCatch("save", "other")
  /\ UNCHANGED <<formWalletType, waitFlag, ticks, walletAddress, assets,
                 isModalVisible, isCroModalVisible, isEthModalVisible,
                 isCosmosModalVisible, isLedgerModalButtonLoading, wallet, chk,
                 inflight, notification, issued, settled, derived, saveCalled,
                 saved, targetWalletType, published,
                 runs>>
  /\ UNCHANGED <<priceVars, homeVars>>


\* ------------------------------------------------------------------------
\* Modal handlers and Connect buttons

\* Variables no check or modal handler writes.
runVars == <<formWalletType, walletAddress, assets, wallet, histVars, runs>>

\* handleEthOk
HandleEthOk ==
  /\ isEthModalVisible
  /\ waitFlag' = FALSE
  /\ UNCHANGED <<runVars, corePc, ticks, uiVars, chk, inflight, notification>>
  /\ UNCHANGED <<priceVars, homeVars>>

\* Variant: dismissing the Ethereum modal abandons the run.
HandleEthCancel_Abort ==
  /\ isEthModalVisible
  /\ waitFlag' = FALSE
  /\ isEthModalVisible' = FALSE
  /\ corePc' = IF corePc = "ethWait" THEN "failed" ELSE corePc
  /\ UNCHANGED <<runVars, ticks, isModalVisible, isErrorModalVisible,
                 isCroModalVisible, isCosmosModalVisible, isLedgerCroAppConnected,
                 isLedgerEthAppConnected, isLedgerCosmosAppConnected,
                 isLedgerModalButtonLoading, createLoading, chk, inflight,
                 notification>>
  /\ UNCHANGED <<priceVars, homeVars>>

\* handleEthCancel
HandleEthCancel ==
  /\ isEthModalVisible
  /\ waitFlag' = FALSE
  /\ isEthModalVisible' = FALSE
  /\ UNCHANGED <<runVars, corePc, ticks, isModalVisible, isErrorModalVisible,
                 isCroModalVisible, isCosmosModalVisible, isLedgerCroAppConnected,
                 isLedgerEthAppConnected, isLedgerCosmosAppConnected,
                 isLedgerModalButtonLoading, createLoading, chk, inflight,
                 notification>>
  /\ UNCHANGED <<priceVars, homeVars>>

\* handleCosmosOk
HandleCosmosOk ==
  /\ isCosmosModalVisible
  /\ waitFlag' = FALSE
  /\ UNCHANGED <<runVars, corePc, ticks, uiVars, chk, inflight, notification>>
  /\ UNCHANGED <<priceVars, homeVars>>

\* handleCosmosCancel
HandleCosmosCancel ==
  /\ isCosmosModalVisible
  /\ waitFlag' = FALSE
  /\ isCosmosModalVisible' = FALSE
  /\ UNCHANGED <<runVars, corePc, ticks, isModalVisible, isErrorModalVisible,
                 isCroModalVisible, isEthModalVisible, isLedgerCroAppConnected,
                 isLedgerEthAppConnected, isLedgerCosmosAppConnected,
                 isLedgerModalButtonLoading, createLoading, chk, inflight,
                 notification>>
  /\ UNCHANGED <<priceVars, homeVars>>

\* handleCroOk / handleCroCancel
HandleCroClose ==
  /\ isCroModalVisible
  /\ isCroModalVisible' = FALSE
  /\ UNCHANGED <<runVars, waitFlag, corePc, ticks, isModalVisible,
                 isErrorModalVisible, isEthModalVisible, isCosmosModalVisible,
                 isLedgerCroAppConnected, isLedgerEthAppConnected,
                 isLedgerCosmosAppConnected, isLedgerModalButtonLoading,
                 createLoading, chk, inflight, notification>>
  /\ UNCHANGED <<priceVars, homeVars>>

\* handleOk / handleCancel of the success modal
HandleOk ==
  /\ isModalVisible
  /\ isModalVisible' = FALSE
  /\ UNCHANGED <<runVars, waitFlag, corePc, ticks, isErrorModalVisible,
                 isCroModalVisible, isEthModalVisible, isCosmosModalVisible,
                 isLedgerCroAppConnected, isLedgerEthAppConnected,
                 isLedgerCosmosAppConnected, isLedgerModalButtonLoading,
                 createLoading, chk, inflight, notification>>
  /\ UNCHANGED <<priceVars, homeVars>>

\* handleErrorOk / handleErrorCancel
HandleErrorOk ==
  /\ isErrorModalVisible
  /\ isErrorModalVisible' = FALSE
  /\ UNCHANGED <<runVars, waitFlag, corePc, ticks, isModalVisible,
                 isCroModalVisible, isEthModalVisible, isCosmosModalVisible,
                 isLedgerCroAppConnected, isLedgerEthAppConnected,
                 isLedgerCosmosAppConnected, isLedgerModalButtonLoading,
                 createLoading, chk, inflight, notification>>
  /\ UNCHANGED <<priceVars, homeVars>>

\* A Connect button can be clicked: its modal is open, the footer shows it
\* (app not yet connected) and it is not in the loading state.
CanConnect(visible, connected) ==
  visible /\ ~connected /\ ~isLedgerModalButtonLoading /\ chk.kind = "none"

\* Connect button of the Crypto.org modal: starts the 500 ms timer.
ConnectCroClick ==
  /\ CanConnect(isCroModalVisible, isLedgerCroAppConnected)
  /\ isLedgerModalButtonLoading' = TRUE
  /\ chk' = [kind |-> "cro", pc |-> "timer", hwok |-> FALSE]
  /\ UNCHANGED <<runVars, waitFlag, corePc, ticks, isModalVisible,
                 isErrorModalVisible, isCroModalVisible, isEthModalVisible,
                 isCosmosModalVisible, isLedgerCroAppConnected,
                 isLedgerEthAppConnected, isLedgerCosmosAppConnected,
                 createLoading, inflight, notification>>
  /\ UNCHANGED <<priceVars, homeVars>>

\* Connect button of the Ethereum modal: handleEthOk, then the 500 ms timer.
ConnectEthClick ==
  /\ CanConnect(isEthModalVisible, isLedgerEthAppConnected)
  /\ waitFlag' = FALSE
  /\ isLedgerModalButtonLoading' = TRUE
  /\ chk' = [kind |-> "eth", pc |-> "timer", hwok |-> FALSE]
  /\ UNCHANGED <<runVars, corePc, ticks, isModalVisible, isErrorModalVisible,
                 isCroModalVisible, isEthModalVisible, isCosmosModalVisible,
                 isLedgerCroAppConnected, isLedgerEthAppConnected,
                 isLedgerCosmosAppConnected, createLoading, inflight,
                 notification>>
  /\ UNCHANGED <<priceVars, homeVars>>

\* Connect button of the Cosmos modal: handleCosmosOk, then the 500 ms timer.
ConnectCosmosClick ==
  /\ CanConnect(isCosmosModalVisible, isLedgerCosmosAppConnected)
  /\ waitFlag' = FALSE
  /\ isLedgerModalButtonLoading' = TRUE
  /\ chk' = [kind |-> "cosmos", pc |-> "timer", hwok |-> FALSE]
  /\ UNCHANGED <<runVars, corePc, ticks, isModalVisible, isErrorModalVisible,
                 isCroModalVisible, isEthModalVisible, isCosmosModalVisible,
                 isLedgerCroAppConnected, isLedgerEthAppConnected,
                 isLedgerCosmosAppConnected, createLoading, inflight,
                 notification>>
  /\ UNCHANGED <<priceVars, homeVars>>

\* The function a Connect check calls on the device.
CheckFn(kind) ==
  CASE kind = "cro" -> GetPubKey
    [] kind = "eth" -> GetEthAddress
    [] kind = "cosmos" -> GetAddressCosmos

\* The 500 ms timer fires: the check starts with setCreateLoading(true), reads
\* walletType from the form (checkIsLedgerCroAppConnected) and issues its
\* device call.  A poll loop whose flag is already cleared ends at
\* its next 100 ms tick, which comes before the 500 ms timer.
CheckStart ==
  /\ chk.pc = "timer"
  /\ ~(corePc \in {"ethWait", "cosmosWait"} /\ ~waitFlag)
  /\ createLoading' = TRUE
  /\ inflight' = inflight \cup {DeviceCall("check", CheckFn(chk.kind))}
  /\ chk' = [kind |-> chk.kind, pc |-> "call", hwok |-> FALSE,
             walletType |-> formWalletType]
  /\ UNCHANGED <<runVars, waitFlag, corePc, ticks, isModalVisible,
                 isErrorModalVisible, isCroModalVisible, isEthModalVisible,
                 isCosmosModalVisible, isLedgerCroAppConnected,
                 isLedgerEthAppConnected, isLedgerCosmosAppConnected,
                 isLedgerModalButtonLoading, notification>>
  /\ UNCHANGED <<priceVars, homeVars>>

\* The message a check's catch block chooses for a thrown error text.
\* checkIsLedgerCroAppConnected classifies only when the walletType it read at
\* its start is Ledger.
CheckMessage(kind, walletType, err) ==
  IF err = "conditions" /\ (kind # "cro" \/ walletType = LEDGER_WALLET_TYPE)
  THEN "mismatch" ELSE "generic"

\* The device call of a check returns: the app is marked connected.
CheckCallOk ==
  /\ chk.pc = "call"
  /\ inflight' = inflight \ {DeviceCall("check", CheckFn(chk.kind))}
  /\ isLedgerCroAppConnected' = IF chk.kind = "cro" THEN TRUE ELSE isLedgerCroAppConnected
  /\ isLedgerEthAppConnected' = IF chk.kind = "eth" THEN TRUE ELSE isLedgerEthAppConnected
  /\ isLedgerCosmosAppConnected' =
       IF chk.kind = "cosmos" THEN TRUE ELSE isLedgerCosmosAppConnected
  /\ chk' = [chk EXCEPT !.pc = "okDelay"]
  /\ UNCHANGED <<runVars, waitFlag, corePc, ticks, isModalVisible,
                 isErrorModalVisible, isCroModalVisible, isEthModalVisible,
                 isCosmosModalVisible, isLedgerModalButtonLoading, createLoading,
                 notification>>
  /\ UNCHANGED <<priceVars, homeVars>>

\* The device call of a check throws: the app is marked not connected and the
\* message is chosen.
CheckCallFail ==
  /\ chk.pc = "call"
  /\ inflight' = inflight \ {DeviceCall("check", CheckFn(chk.kind))}
  /\ isLedgerCroAppConnected' = IF chk.kind = "cro" THEN FALSE ELSE isLedgerCroAppConnected
  /\ isLedgerEthAppConnected' = IF chk.kind = "eth" THEN FALSE ELSE isLedgerEthAppConnected
  /\ isLedgerCosmosAppConnected' =
       IF chk.kind = "cosmos" THEN FALSE ELSE isLedgerCosmosAppConnected
  /\ \E err \in DeviceErrors :
       chk' = [kind |-> chk.kind, pc |-> "errDelay", hwok |-> FALSE,
               walletType |-> chk.walletType, err |-> err,
               message |-> CheckMessage(chk.kind, chk.walletType, err)]
  /\ UNCHANGED <<runVars, waitFlag, corePc, ticks, isModalVisible,
                 isErrorModalVisible, isCroModalVisible, isEthModalVisible,
                 isCosmosModalVisible, isLedgerModalButtonLoading, createLoading,
                 notification>>
  /\ UNCHANGED <<priceVars, homeVars>>

\* The delay after a successful check ends.  The Ethereum check leaves its modal
\* open; the Crypto.org check goes on to its final delay with hwok = true.
CheckOkDelayDone ==
  /\ chk.pc = "okDelay"
  /\ isCroModalVisible' = IF chk.kind = "cro" THEN FALSE ELSE isCroModalVisible
  /\ isCosmosModalVisible' = IF chk.kind = "cosmos" THEN FALSE ELSE isCosmosModalVisible
  /\ isLedgerModalButtonLoading' = FALSE
  /\ chk' = IF chk.kind = "cro" THEN [chk EXCEPT !.pc = "tail", !.hwok = TRUE]
            ELSE NoCheck
  /\ UNCHANGED <<runVars, waitFlag, corePc, ticks, isModalVisible,
                 isErrorModalVisible, isEthModalVisible, isLedgerCroAppConnected,
                 isLedgerEthAppConnected, isLedgerCosmosAppConnected,
                 createLoading, inflight, notification>>
  /\ UNCHANGED <<priceVars, homeVars>>

\* The delay in a check's catch block ends: the modal closes, createLoading is
\* cleared and the notification is shown.
CheckErrDelayDone ==
  /\ chk.pc = "errDelay"
  /\ isCroModalVisible' = IF chk.kind = "cro" THEN FALSE ELSE isCroModalVisible
  /\ isEthModalVisible' = IF chk.kind = "eth" THEN FALSE ELSE isEthModalVisible
  /\ isCosmosModalVisible' = IF chk.kind = "cosmos" THEN FALSE ELSE isCosmosModalVisible
  /\ createLoading' = FALSE
  /\ isLedgerModalButtonLoading' = FALSE
  /\ notification' = chk.message
  /\ chk' = IF chk.kind = "cro" THEN [kind |-> "cro", pc |-> "tail", hwok |-> FALSE]
            ELSE NoCheck
  /\ UNCHANGED <<runVars, waitFlag, corePc, ticks, isModalVisible,
                 isErrorModalVisible, isLedgerCroAppConnected,
                 isLedgerEthAppConnected, isLedgerCosmosAppConnected, inflight>>
  /\ UNCHANGED <<priceVars, homeVars>>

\* The final delay of checkIsLedgerCroAppConnected ends: with hwok the run
\* starts.
CheckCroTailDone ==
  /\ chk.pc = "tail"
  /\ chk' = NoCheck
  /\ IF chk.hwok
     THEN /\ \E fieldsOk \in BOOLEAN : CoreBegin(fieldsOk)
     ELSE UNCHANGED <<createLoading, corePc, ticks, walletAddress, assets, histVars>>
  /\ UNCHANGED <<formWalletType, waitFlag, isModalVisible, isErrorModalVisible,
                 isCroModalVisible, isEthModalVisible, isCosmosModalVisible,
                 isLedgerCroAppConnected, isLedgerEthAppConnected,
                 isLedgerCosmosAppConnected, isLedgerModalButtonLoading, wallet,
                 inflight, notification, runs>>
  /\ UNCHANGED <<priceVars, homeVars>>

\* ------------------------------------------------------------------------
CoreNext ==
  \/ OnCheckboxChange \/ OnWalletCreateFinish
  \/ CoreCreateOk \/ CoreCreateFail
  \/ CoreCroOk \/ CoreCroFail
  \/ CoreEthTick \/ CoreEthOk \/ CoreEthFail \/ CoreEthDelayDone
  \/ CoreCosmosTick \/ CoreCosmosOk \/ CoreCosmosFail
  \/ CoreSaveOk \/ CoreSaveFail

ModalNext ==
  \/ HandleEthOk \/ HandleEthCancel \/ HandleCosmosOk \/ HandleCosmosCancel
  \/ HandleCroClose \/ HandleOk \/ HandleErrorOk

CheckNext ==
  \/ ConnectCroClick \/ ConnectEthClick \/ ConnectCosmosClick
  \/ CheckStart \/ CheckCallOk \/ CheckCallFail
  \/ CheckOkDelayDone \/ CheckErrDelayDone \/ CheckCroTailDone

NextCreate == CoreNext \/ ModalNext \/ CheckNext

\* ------------------------------------------------------------------------
\* CroMarketApi: the price feed, its inputs and the pure parts

\* Bounds
MaxCalls == 2
MaxStarted == 2

CRC_20_TOKEN == "CRC_20_TOKEN"
ERC_20_TOKEN == "ERC_20_TOKEN"

\* nativeTokenSlug
NativeTokenSlug == {"crypto-com-coin", "ethereum", "cosmos"}
\* Array.from(CRC20MainnetTokenInfos.keys()), Array.from(ERC20MainnetTokenInfos.keys())
WhitelistedCRC20 == {"VVS"}
WhitelistedERC20 == {"USDC"}

\* The assets the resolver is asked about.
Assets ==
  { [identifier |-> "cro-mainnet", assetType |-> TENDERMINT,
     mainnetSymbol |-> "CRO", symbol |-> "TCRO"],
    [identifier |-> "vvs-crc20", assetType |-> CRC_20_TOKEN,
     mainnetSymbol |-> "VVS", symbol |-> "VVS"],
    [identifier |-> "bar-crc20", assetType |-> CRC_20_TOKEN,
     mainnetSymbol |-> "BAR", symbol |-> "VVS"],
    [identifier |-> "foo-crc20", assetType |-> CRC_20_TOKEN,
     mainnetSymbol |-> "FOO", symbol |-> "FOO"] }
NoAsset == [identifier |-> "", assetType |-> "", mainnetSymbol |-> "", symbol |-> ""]
Identifiers == {a.identifier : a \in Assets}
Currencies == {"USD", "EUR"}

\* What GET /all-tokens answers with: [{slug, symbol}].
Directory ==
  << [slug |-> "crypto-com-coin", symbol |-> "CRO"],
     [slug |-> "vvs-finance", symbol |-> "VVS"],
     [slug |-> "vvs-v1", symbol |-> "VVS"],
     [slug |-> "bar-token", symbol |-> "BAR"],
     [slug |-> "foo-token", symbol |-> "FOO"] >>

\* What GET /tokens/{slug} answers with; tags may be absent.
TokenRecord(slug) ==
  CASE slug = "crypto-com-coin" ->
         [slug |-> slug, symbol |-> "CRO", usd_price |-> 8, usd_price_change_24h |-> 2,
          tags |-> [present |-> FALSE, list |-> {}]]
    [] slug = "vvs-finance" ->
         [slug |-> slug, symbol |-> "VVS", usd_price |-> 3, usd_price_change_24h |-> 1,
          tags |-> [present |-> FALSE, list |-> {}]]
    [] slug = "vvs-v1" ->
         [slug |-> slug, symbol |-> "VVS", usd_price |-> 5, usd_price_change_24h |-> 4,
          tags |-> [present |-> TRUE, list |-> {}]]
    [] slug = "bar-token" ->
         [slug |-> slug, symbol |-> "BAR", usd_price |-> 7, usd_price_change_24h |-> 6,
          tags |-> [present |-> TRUE, list |-> {"defi"}]]
    [] slug = "foo-token" ->
         [slug |-> slug, symbol |-> "FOO", usd_price |-> 9, usd_price_change_24h |-> 0,
          tags |-> [present |-> TRUE, list |-> {"cronos-ecosystem"}]]

\* The USD -> fiat rate GET /exchange-rates answers with.
UsdRate(currency) == IF currency = "EUR" THEN 2 ELSE 1

\* Outcomes of the network calls.
DirOutcomes == {"ok", "reject", "non200", "empty"}
CandStatuses == {200, 204}
RateOutcomes == {"ok", "reject", "non200", "norate"}
PricesOutcomes == {"ok", "reject", "non200", "noprices"}

\* String.prototype.toUpperCase on the symbols of the feed.
ToUpperCase(str) ==
  CASE str = "usdc" -> "USDC"
    [] str = "vvs" -> "VVS"
    [] OTHER -> str

\* token.tags ?? []
TagsOf(token) == IF token.tags.present THEN token.tags.list ELSE {}

\* Variant: the CRC-20 whitelist is not consulted.
Selects_NoCrc20Whitelist(assetType, token) ==
  \/ token.slug \in NativeTokenSlug
  \/ (assetType = CRC_20_TOKEN /\ "cronos-ecosystem" \in TagsOf(token))
  \/ (assetType = ERC_20_TOKEN /\ ToUpperCase(token.symbol) \in WhitelistedERC20)

\* The predicate of tokenPriceResponses.find(..) in getTokenSlug and
\* getTokenPriceFromCryptoCom.
Selects(assetType, token) ==
  \/ token.slug \in NativeTokenSlug
  \/ (assetType = CRC_20_TOKEN /\ token.symbol \in WhitelistedCRC20)
  \/ (assetType = CRC_20_TOKEN /\ "cronos-ecosystem" \in TagsOf(token))
  \/ (assetType = ERC_20_TOKEN /\ ToUpperCase(token.symbol) \in WhitelistedERC20)

\* tokenPriceResponses.find(..): index of the first selected response, 0 if none
FindFirst(responses, assetType) ==
  IF \E k \in 1..Len(responses) : Selects(assetType, responses[k].data)
  THEN CHOOSE k \in 1..Len(responses) :
         /\ Selects(assetType, responses[k].data)
         /\ \A j \in 1..(k - 1) : ~Selects(assetType, responses[j].data)
  ELSE 0

\* allTokensSlugMap.filter(tokenSlug => tokenSlug.symbol === mainnetSymbol), as slugs
RECURSIVE SlugsFor(_, _)
SlugsFor(dir, mainnetSymbol) ==
  IF dir = << >> THEN << >>
  ELSE IF Head(dir).symbol = mainnetSymbol
       THEN <<Head(dir).slug>> \o SlugsFor(Tail(dir), mainnetSymbol)
       ELSE SlugsFor(Tail(dir), mainnetSymbol)

\* Variant: the cache is never consulted.
CacheHit_Never(cachedSlug) == FALSE

\* cachedSlug && cachedSlug.length > 0
CacheHit(cachedSlug) == cachedSlug # ""

\* Variant: the directory is fetched on every call.
NeedsDirectoryFetch_Always(memo) == TRUE

\* Variant: the memo is returned as it is, also when it is empty.
NeedsDirectoryFetch_Never(memo) == FALSE

\* !this.tokenSlugMap || this.tokenSlugMap.length === 0
NeedsDirectoryFetch(memo) == Len(memo) = 0

\* Variant: the exchange rate is fetched for every currency.
NeedsRate_Always(fiatCurrency) == TRUE

\* fiatCurrency !== 'USD'
NeedsRate(fiatCurrency) == fiatCurrency # "USD"

NoResult == [kind |-> "none"]

IdleCall ==
  [pc |-> "idle", op |-> "none", asset |-> NoAsset, currency |-> "",
   cachedSlug |-> "", memoAtStart |-> FALSE, retry |-> FALSE, cands |-> << >>, pending |-> {},
   responses |-> << >>, selected |-> 0, slug |-> "", nDir |-> 0, nCand |-> 0,
   nRate |-> 0, nPrices |-> 0, outcome |-> "none", failure |-> "none",
   result |-> NoResult]

\* The record getAssetPrice returns; price and dailyChange are strings.
AssetMarketPrice(asset, currency, price, dailyChange) ==
  [kind |-> "AssetMarketPrice", assetSymbol |-> asset.mainnetSymbol,
   currency |-> currency, dailyChange |-> dailyChange, price |-> price,
   assetType |-> asset.assetType]

\* Variant: every failure is thrown to the caller.
Throw_Propagate(call, why) ==
  [call EXCEPT !.pc = "done", !.outcome = "threw", !.failure = why]

\* Variant: every method catches the failure and returns the empty record.
Throw_CatchAll(call, why) ==
  [call EXCEPT !.pc = "done", !.outcome = "returned", !.failure = why,
               !.result = AssetMarketPrice(call.asset, call.currency, "", "")]

\* A throw inside the call: getAssetPrice catches it and returns the empty
\* record, getTokenPrices lets it escape.
Throw(call, why) ==
  IF call.op = "getAssetPrice"
  THEN [call EXCEPT !.pc = "done", !.outcome = "returned", !.failure = why,
                    !.result = AssetMarketPrice(call.asset, call.currency, "", "")]
  ELSE [call EXCEPT !.pc = "done", !.outcome = "threw", !.failure = why]

\* Variant: price and dailyChange are taken from each other's field.
ReturnPrice_SwapFields(call, rate) ==
  LET token == call.responses[call.selected].data IN
    [call EXCEPT !.pc = "done", !.outcome = "returned",
                 !.result = AssetMarketPrice(call.asset, call.currency,
                                             ToString(token.usd_price_change_24h * rate),
                                             ToString(token.usd_price))]

\* The tail of getTokenPriceFromCryptoCom and of getAssetPrice once the rate is
\* known: String(Number(usd_price) * Number(usdToFiatRate)).
ReturnPrice(call, rate) ==
  LET token == call.responses[call.selected].data IN
    [call EXCEPT !.pc = "done", !.outcome = "returned",
                 !.result = AssetMarketPrice(call.asset, call.currency,
                                             ToString(token.usd_price * rate),
                                             ToString(token.usd_price_change_24h))]

\* Promise.all has resolved in getTokenPriceFromCryptoCom: select, check the
\* status, then fetch the rate or return.
ConcludePrice(call) ==
  LET k == FindFirst(call.responses, call.asset.assetType) IN
    IF k = 0 THEN Throw(call, "nomatch")
    ELSE IF call.responses[k].status # 200 THEN Throw(call, "status")
    ELSE IF NeedsRate(call.currency)
         THEN [call EXCEPT !.pc = "rate", !.selected = k, !.nRate = @ + 1]
         ELSE ReturnPrice([call EXCEPT !.selected = k], 1)

\* Promise.all has resolved in getTokenSlug: select; null makes getTokenPrices
\* throw, a slug is cached (by the action) and the prices are fetched.
ConcludeSlug(call) ==
  LET k == FindFirst(call.responses, call.asset.assetType) IN
    IF k = 0 \/ call.responses[k].data.slug = ""
    THEN Throw([call EXCEPT !.slug = "null"], "noslug")
    ELSE [call EXCEPT !.pc = "prices", !.selected = k,
                      !.slug = call.responses[k].data.slug, !.nPrices = @ + 1]

Conclude(call) ==
  IF call.op = "getAssetPrice" THEN ConcludePrice(call) ELSE ConcludeSlug(call)

\* The directory is at hand: filter it and issue one fetch per candidate.
BeginCandidates(call, dir) ==
  LET cands == SlugsFor(dir, call.asset.mainnetSymbol) IN
    IF Len(cands) = 0
    THEN Conclude([call EXCEPT !.cands = cands])
    ELSE [call EXCEPT !.pc = "cands", !.cands = cands,
                      !.pending = 1..Len(cands), !.nCand = Len(cands)]

\* loadTokenSlugMap at the start of a call: fetch when the memo is empty.
BeginLoad(call) ==
  IF NeedsDirectoryFetch(tokenSlugMap)
  THEN [call EXCEPT !.pc = "dir", !.nDir = @ + 1]
  ELSE BeginCandidates(call, tokenSlugMap)

\* Variant: the result of a lookup is stored also when it is null.
CacheAfter_StoreNull(call) ==
  IF call.op = "getTokenPrices" /\ call.cachedSlug = ""
     /\ (call.pc = "prices" \/ call.slug = "null")
  THEN [TokenSlugMap EXCEPT ![call.asset.identifier] = call.slug]
  ELSE TokenSlugMap

\* TokenSlugMap.set(asset.identifier, slug) when getTokenSlug selected a slug.
CacheAfter(call) ==
  IF call.op = "getTokenPrices" /\ call.pc = "prices" /\ call.cachedSlug = ""
  THEN [TokenSlugMap EXCEPT ![call.asset.identifier] = call.slug]
  ELSE TokenSlugMap

\* What a getTokenSlug lookup that has just concluded returned (null or the
\* selected slug), kept per identifier.
ResolvedAfter(call) ==
  IF call.op = "getTokenPrices" /\ call.cachedSlug = ""
     /\ (call.pc = "prices" \/ call.slug = "null")
  THEN resolved \cup {[identifier |-> call.asset.identifier, slug |-> call.slug]}
  ELSE resolved

InitPriceState ==
  /\ TokenSlugMap = [id \in Identifiers |-> ""]
  /\ tokenSlugMap = << >>
  /\ preloadPc = "fetch"
  /\ calls = [c \in 1..MaxCalls |-> IdleCall]
  /\ started = 0
  /\ resolved = {}
  /\ dirLoaded = 0

\* The /all-tokens request the constructor issued settles; on success
\* loadTokenSlugMap stores the list and the then-callback stores it again.
PreloadDone ==
  /\ preloadPc = "fetch"
  /\ \E outcome \in DirOutcomes :
       IF outcome = "ok"
       THEN tokenSlugMap' = Directory /\ preloadPc' = "done" /\ dirLoaded' = dirLoaded + 1
       ELSE UNCHANGED <<tokenSlugMap, dirLoaded>> /\ preloadPc' = "failed"
  /\ UNCHANGED <<TokenSlugMap, calls, started, resolved>>
  /\ UNCHANGED <<createVars, homeVars>>

FreshCall(op, asset, currency) ==
  [IdleCall EXCEPT !.op = op, !.asset = asset, !.currency = currency,
                   !.cachedSlug = TokenSlugMap[asset.identifier],
                   !.memoAtStart = (tokenSlugMap # << >>),
                   !.retry = ([identifier |-> asset.identifier, slug |-> "null"] \in resolved)]

\* A new call takes the first slot that holds no running call.
FreeSlot(c) ==
  /\ calls[c].pc \in {"idle", "done"}
  /\ \A d \in 1..(c - 1) : calls[d].pc \notin {"idle", "done"}

\* getAssetPrice(asset, currency) is called: getTokenPriceFromCryptoCom starts
\* with loadTokenSlugMap.
StartGetAssetPrice(c) ==
  /\ FreeSlot(c)
  /\ started < MaxStarted
  /\ started' = started + 1
  /\ \E asset \in Assets, currency \in Currencies :
       calls' = [calls EXCEPT ![c] = BeginLoad(FreshCall("getAssetPrice", asset, currency))]
  /\ UNCHANGED <<TokenSlugMap, tokenSlugMap, preloadPc, resolved, dirLoaded>>
  /\ UNCHANGED <<createVars, homeVars>>

\* getTokenPrices(asset, fiatCurrency, interval) is called: getTokenSlug
\* returns the cached slug or starts with loadTokenSlugMap.
StartGetTokenPrices(c) ==
  /\ FreeSlot(c)
  /\ started < MaxStarted
  /\ started' = started + 1
  /\ \E asset \in Assets :
       LET call == FreshCall("getTokenPrices", asset, "USD") IN
         calls' = [calls EXCEPT ![c] =
                     IF CacheHit(call.cachedSlug)
                     THEN [call EXCEPT !.pc = "prices", !.slug = call.cachedSlug,
                                       !.nPrices = @ + 1]
                     ELSE BeginLoad(call)]
  /\ UNCHANGED <<TokenSlugMap, tokenSlugMap, preloadPc, resolved, dirLoaded>>
  /\ UNCHANGED <<createVars, homeVars>>

\* The /all-tokens request of a call settles.
DirFetchDone(c) ==
  /\ calls[c].pc = "dir"
  /\ \E outcome \in DirOutcomes :
       IF outcome = "ok"
       THEN LET call == BeginCandidates(calls[c], Directory) IN
              /\ tokenSlugMap' = Directory
              /\ calls' = [calls EXCEPT ![c] = call]
              /\ TokenSlugMap' = CacheAfter(call)
              /\ resolved' = ResolvedAfter(call)
              /\ dirLoaded' = dirLoaded + 1
       ELSE /\ calls' = [calls EXCEPT ![c] = Throw(calls[c], "directory")]
            /\ UNCHANGED <<tokenSlugMap, TokenSlugMap, resolved, dirLoaded>>
  /\ UNCHANGED <<preloadPc, started>>
  /\ UNCHANGED <<createVars, homeVars>>

\* Variant: the selection runs as soon as the first response is in.
CandFetchOk_SelectEarly(c) ==
  /\ calls[c].pc = "cands"
  /\ \E j \in calls[c].pending, status \in CandStatuses :
       LET pushed == [calls[c] EXCEPT
                        !.pending = @ \ {j},
                        !.responses = Append(@, [data |-> TokenRecord(calls[c].cands[j]),
                                                 status |-> status])]
           call == Conclude(pushed)
       IN /\ calls' = [calls EXCEPT ![c] = call]
          /\ TokenSlugMap' = CacheAfter(call)
          /\ resolved' = ResolvedAfter(call)
  /\ UNCHANGED <<tokenSlugMap, preloadPc, started, dirLoaded>>
  /\ UNCHANGED <<createVars, homeVars>>

\* The /tokens/{slug} request of candidate j answers: the response is pushed;
\* when it was the last one Promise.all resolves and the selection runs.
CandFetchOk(c) ==
  /\ calls[c].pc = "cands"
  /\ \E j \in calls[c].pending, status \in CandStatuses :
       LET pushed == [calls[c] EXCEPT
                        !.pending = @ \ {j},
                        !.responses = Append(@, [data |-> TokenRecord(calls[c].cands[j]),
                                                 status |-> status])]
           call == IF pushed.pending = {} THEN Conclude(pushed) ELSE pushed
       IN /\ calls' = [calls EXCEPT ![c] = call]
          /\ TokenSlugMap' = CacheAfter(call)
          /\ resolved' = ResolvedAfter(call)
  /\ UNCHANGED <<tokenSlugMap, preloadPc, started, dirLoaded>>
  /\ UNCHANGED <<createVars, homeVars>>

\* Variant: a rejected candidate is left out and the others still count.
CandFetchFail_Skip(c) ==
  /\ calls[c].pc = "cands"
  /\ \E j \in calls[c].pending :
       LET dropped == [calls[c] EXCEPT !.pending = @ \ {j}]
           call == IF dropped.pending = {} THEN Conclude(dropped) ELSE dropped
       IN /\ calls' = [calls EXCEPT ![c] = call]
          /\ TokenSlugMap' = CacheAfter(call)
          /\ resolved' = ResolvedAfter(call)
  /\ UNCHANGED <<tokenSlugMap, preloadPc, started, dirLoaded>>
  /\ UNCHANGED <<createVars, homeVars>>

\* The /tokens/{slug} request of a candidate is rejected: Promise.all rejects.
CandFetchFail(c) ==
  /\ calls[c].pc = "cands"
  /\ calls[c].pending # {}
  /\ calls' = [calls EXCEPT ![c] = Throw(calls[c], "candidate")]
  /\ UNCHANGED <<TokenSlugMap, tokenSlugMap, preloadPc, started, resolved, dirLoaded>>
  /\ UNCHANGED <<createVars, homeVars>>

\* The /exchange-rates request settles (getCryptoToFiatRateFromCoinbase).
RateFetchDone(c) ==
  /\ calls[c].pc = "rate"
  /\ \E outcome \in RateOutcomes :
       calls' = [calls EXCEPT ![c] =
                   IF outcome = "ok"
                   THEN ReturnPrice(calls[c], UsdRate(calls[c].currency))
                   ELSE Throw(calls[c], "rate")]
  /\ UNCHANGED <<TokenSlugMap, tokenSlugMap, preloadPc, started, resolved, dirLoaded>>
  /\ UNCHANGED <<createVars, homeVars>>

\* The /{interval}/{slug}/ request of getTokenPrices settles.
PricesFetchDone(c) ==
  /\ calls[c].pc = "prices"
  /\ \E outcome \in PricesOutcomes :
       calls' = [calls EXCEPT ![c] =
                   IF outcome = "ok"
                   THEN [calls[c] EXCEPT !.pc = "done", !.outcome = "returned",
                                         !.result = [kind |-> "prices", slug |-> calls[c].slug]]
                   ELSE Throw(calls[c], "prices")]
  /\ UNCHANGED <<TokenSlugMap, tokenSlugMap, preloadPc, started, resolved, dirLoaded>>
  /\ UNCHANGED <<createVars, homeVars>>

NextPrice ==
  \/ PreloadDone
  \/ \E c \in 1..MaxCalls :
       \/ StartGetAssetPrice(c) \/ StartGetTokenPrices(c)
       \/ DirFetchDone(c) \/ CandFetchOk(c) \/ CandFetchFail(c)
       \/ RateFetchDone(c) \/ PricesFetchDone(c)

\* ------------------------------------------------------------------------
\* HomeLayout: Ledger asset migration

\* Migrations (migrateLedgerAsset calls) followed in one session.
MaxMigrations == 2

HomeKinds == {"cro", "eth", "cosmos"}

\* The device function a HomeLayout check calls.
HomeCheckFn(kind) ==
  CASE kind = "cro" -> GetAddressCro
    [] kind = "eth" -> GetEthAddress
    [] kind = "cosmos" -> GetAddressCosmos

NoHomeChk ==
  [kind |-> "none", pc |-> "idle", hwok |-> FALSE, ledgerTendermintAddress |-> "",
   ledgerEvmAddress |-> "", ledgerCosmosAddress |-> ""]

NoMigration == [pc |-> "idle", args |-> << >>, count |-> 0]

\* The component after the first fetchDB: the wallet needs asset creation and
\* the notification with the Enable button is shown.
InitHome(walletType) ==
  [walletType |-> walletType,
   ledgerTendermintAddress |-> "",
   ledgerEvmAddress |-> "",
   isLedgerCroAppConnected |-> FALSE,
   isLedgerEthAppConnected |-> FALSE,
   isLedgerCosmosAppConnected |-> FALSE,
   isLedgerCroAppConnectModalVisible |-> FALSE,
   isLedgerEthAppConnectModalVisible |-> FALSE,
   isLedgerCosmosAppConnectModalVisible |-> FALSE,
   isLedgerModalButtonLoading |-> FALSE,
   isLedgerCreateAssetSuccessModalVisible |-> FALSE,
   isLedgerCreateAssetErrorModalVisible |-> FALSE,
   inputPasswordVisible |-> FALSE,
   fetchingDB |-> FALSE,
   newAssetNotification |-> TRUE,
   notification |-> "none"]

\* Which modal, connected flag belongs to a check.
HomeModalVisible(kind) ==
  CASE kind = "cro" -> home.isLedgerCroAppConnectModalVisible
    [] kind = "eth" -> home.isLedgerEthAppConnectModalVisible
    [] kind = "cosmos" -> home.isLedgerCosmosAppConnectModalVisible

HomeConnected(kind) ==
  CASE kind = "cro" -> home.isLedgerCroAppConnected
    [] kind = "eth" -> home.isLedgerEthAppConnected
    [] kind = "cosmos" -> home.isLedgerCosmosAppConnected

\* The Enable button of the new-asset notification.
HomeEnableClick ==
  /\ home.newAssetNotification
  /\ home' = IF home.walletType = LEDGER_WALLET_TYPE
             THEN [home EXCEPT !.isLedgerCroAppConnectModalVisible = TRUE,
                               !.newAssetNotification = FALSE]
             ELSE [home EXCEPT !.inputPasswordVisible = TRUE,
                               !.newAssetNotification = FALSE]
  /\ UNCHANGED <<homeChk, mig, deviceLog, lock>>
  /\ UNCHANGED <<createVars, priceVars>>

\* handleOk / handleCancel of a Ledger modal: the modal is hidden.
HomeModalClose(kind) ==
  /\ HomeModalVisible(kind)
  /\ home' = CASE kind = "cro" -> [home EXCEPT !.isLedgerCroAppConnectModalVisible = FALSE]
               [] kind = "eth" -> [home EXCEPT !.isLedgerEthAppConnectModalVisible = FALSE]
               [] kind = "cosmos" -> [home EXCEPT !.isLedgerCosmosAppConnectModalVisible = FALSE]
  /\ UNCHANGED <<homeChk, mig, deviceLog, lock>>
  /\ UNCHANGED <<createVars, priceVars>>

\* A Connect button can be clicked: its modal is open, the footer shows it and
\* it is not loading.
HomeCanConnect(kind) ==
  HomeModalVisible(kind) /\ ~HomeConnected(kind) /\ ~home.isLedgerModalButtonLoading

\* Connect button of a Ledger modal: the check of this render starts and
\* issues its device call; it carries the addresses the render holds.
HomeConnectClick(kind) ==
  /\ HomeCanConnect(kind)
  /\ homeChk.kind = "none"
  /\ homeChk' = [kind |-> kind, pc |-> "call", hwok |-> FALSE,
                 ledgerTendermintAddress |-> home.ledgerTendermintAddress,
                 ledgerEvmAddress |-> home.ledgerEvmAddress,
                 ledgerCosmosAddress |-> ""]
  /\ home' = [home EXCEPT !.isLedgerModalButtonLoading = TRUE]
  /\ UNCHANGED <<mig, deviceLog, lock>>
  /\ UNCHANGED <<createVars, priceVars>>

\* The device call of a check returns: the address is kept and the app is
\* marked connected.
HomeCheckCallOk ==
  /\ homeChk.pc = "call"
  /\ \E addr \in Addresses(HomeCheckFn(homeChk.kind)) :
       /\ home' = CASE homeChk.kind = "cro" ->
                         [home EXCEPT !.ledgerTendermintAddress = addr,
                                      !.isLedgerCroAppConnected = TRUE]
                    [] homeChk.kind = "eth" ->
                         [home EXCEPT !.isLedgerEthAppConnected = TRUE,
                                      !.ledgerEvmAddress = addr]
                    [] homeChk.kind = "cosmos" ->
                         [home EXCEPT !.isLedgerCosmosAppConnected = TRUE]
       /\ homeChk' = [homeChk EXCEPT
                        !.pc = "okDelay",
                        !.ledgerCosmosAddress = IF homeChk.kind = "cosmos" THEN addr ELSE @]
       /\ deviceLog' = Append(deviceLog, [kind |-> homeChk.kind, ok |-> TRUE, address |-> addr])
  /\ UNCHANGED <<mig, lock>>
  /\ UNCHANGED <<createVars, priceVars>>

\* The message a HomeLayout check chooses for a thrown error text.
HomeCheckMessage(walletType, err) ==
  IF walletType = LEDGER_WALLET_TYPE /\ err = "conditions" THEN "mismatch" ELSE "generic"

\* The device call of a check throws: the message is chosen; the Ethereum and
\* Cosmos checks mark the app not connected before their delay.
HomeCheckCallFail ==
  /\ homeChk.pc = "call"
  /\ \E err \in DeviceErrors :
       homeChk' = [kind |-> homeChk.kind, pc |-> "errDelay", hwok |-> FALSE,
                   ledgerTendermintAddress |-> homeChk.ledgerTendermintAddress,
                   ledgerEvmAddress |-> homeChk.ledgerEvmAddress,
                   ledgerCosmosAddress |-> "",
                   message |-> HomeCheckMessage(home.walletType, err)]
  /\ home' = CASE homeChk.kind = "cro" -> home
               [] homeChk.kind = "eth" -> [home EXCEPT !.isLedgerEthAppConnected = FALSE]
               [] homeChk.kind = "cosmos" -> [home EXCEPT !.isLedgerCosmosAppConnected = FALSE]
  /\ deviceLog' = Append(deviceLog, [kind |-> homeChk.kind, ok |-> FALSE, address |-> ""])
  /\ UNCHANGED <<mig, lock>>
  /\ UNCHANGED <<createVars, priceVars>>

\* Variant: a check that succeeded leaves the next modal closed and opens the
\* Cosmos modal whatever the step was.
HomeCheckOkDelayDone_SkipToCosmos ==
  /\ homeChk.pc = "okDelay"
  /\ home' = CASE homeChk.kind = "cro" ->
                    [home EXCEPT !.isLedgerCroAppConnectModalVisible = FALSE,
                                 !.isLedgerCroAppConnected = FALSE,
                                 !.isLedgerModalButtonLoading = FALSE,
                                 !.isLedgerCosmosAppConnectModalVisible = TRUE]
               [] homeChk.kind = "eth" ->
                    [home EXCEPT !.isLedgerEthAppConnected = FALSE,
                                 !.isLedgerEthAppConnectModalVisible = FALSE,
                                 !.isLedgerModalButtonLoading = FALSE,
                                 !.isLedgerCosmosAppConnectModalVisible = TRUE]
               [] homeChk.kind = "cosmos" ->
                    [home EXCEPT !.isLedgerCosmosAppConnected = FALSE,
                                 !.isLedgerCosmosAppConnectModalVisible = FALSE,
                                 !.isLedgerModalButtonLoading = FALSE]
  /\ homeChk' = IF homeChk.kind = "cosmos"
                THEN [homeChk EXCEPT !.pc = "tail", !.hwok = TRUE]
                ELSE NoHomeChk
  /\ UNCHANGED <<mig, deviceLog, lock>>
  /\ UNCHANGED <<createVars, priceVars>>

\* The 2 s delay after a successful call ends: the modal of the step closes
\* and the modal of the next step opens; the Cosmos check sets hwok and goes on
\* to its final delay.
HomeCheckOkDelayDone ==
  /\ homeChk.pc = "okDelay"
  /\ home' = CASE homeChk.kind = "cro" ->
                    [home EXCEPT !.isLedgerCroAppConnectModalVisible = FALSE,
                                 !.isLedgerCroAppConnected = FALSE,
                                 !.isLedgerModalButtonLoading = FALSE,
                                 !.isLedgerEthAppConnectModalVisible = TRUE]
               [] homeChk.kind = "eth" ->
                    [home EXCEPT !.isLedgerEthAppConnected = FALSE,
                                 !.isLedgerEthAppConnectModalVisible = FALSE,
                                 !.isLedgerModalButtonLoading = FALSE,
                                 !.isLedgerCosmosAppConnectModalVisible = TRUE]
               [] homeChk.kind = "cosmos" ->
                    [home EXCEPT !.isLedgerCosmosAppConnected = FALSE,
                                 !.isLedgerCosmosAppConnectModalVisible = FALSE,
                                 !.isLedgerModalButtonLoading = FALSE]
  /\ homeChk' = IF homeChk.kind = "cosmos"
                THEN [homeChk EXCEPT !.pc = "tail", !.hwok = TRUE]
                ELSE NoHomeChk
  /\ UNCHANGED <<mig, deviceLog, lock>>
  /\ UNCHANGED <<createVars, priceVars>>

\* The 2 s delay of a catch block ends: the modal closes, the button stops
\* loading and the notification is shown.  The Cosmos check goes on to its
\* final delay with hwok = false.
HomeCheckErrDelayDone ==
  /\ homeChk.pc = "errDelay"
  /\ home' = CASE homeChk.kind = "cro" ->
                    [home EXCEPT !.isLedgerCroAppConnected = FALSE,
                                 !.isLedgerCroAppConnectModalVisible = FALSE,
                                 !.isLedgerModalButtonLoading = FALSE,
                                 !.notification = homeChk.message]
               [] homeChk.kind = "eth" ->
                    [home EXCEPT !.isLedgerEthAppConnectModalVisible = FALSE,
                                 !.isLedgerModalButtonLoading = FALSE,
                                 !.notification = homeChk.message]
               [] homeChk.kind = "cosmos" ->
                    [home EXCEPT !.isLedgerCosmosAppConnectModalVisible = FALSE,
                                 !.isLedgerModalButtonLoading = FALSE,
                                 !.notification = homeChk.message]
  /\ homeChk' = IF homeChk.kind = "cosmos"
                THEN [NoHomeChk EXCEPT !.kind = "cosmos", !.pc = "tail"]
                ELSE NoHomeChk
  /\ UNCHANGED <<mig, deviceLog, lock>>
  /\ UNCHANGED <<createVars, priceVars>>

\* The arguments migrateLedgerAsset hands to handleCurrentWalletAssetsMigration
\* after the session: the two addresses of the check's render and the address
\* its own call returned.
MigrationArgs(c) ==
  <<"", c.ledgerTendermintAddress, c.ledgerEvmAddress, c.ledgerCosmosAddress>>

\* The final delay of checkIsLedgerCosmosAppConnected ends: with hwok
\* migrateLedgerAsset starts (setFetchingDB(true), the migration is invoked).
HomeCosmosTailDone ==
  /\ homeChk.pc = "tail"
  /\ homeChk' = NoHomeChk
  /\ IF homeChk.hwok
     THEN /\ mig.pc = "idle"
          /\ mig' = [pc |-> "running", args |-> MigrationArgs(homeChk),
                     count |-> mig.count + 1]
          /\ home' = [home EXCEPT !.fetchingDB = TRUE]
     ELSE UNCHANGED <<mig, home>>
  /\ UNCHANGED <<deviceLog, lock>>
  /\ UNCHANGED <<createVars, priceVars>>

\* handleCurrentWalletAssetsMigration resolves: the success modal is shown.
HomeMigrateOk ==
  /\ mig.pc = "running"
  /\ mig' = [mig EXCEPT !.pc = "idle"]
  /\ home' = [home EXCEPT !.isLedgerCreateAssetSuccessModalVisible = TRUE,
                          !.fetchingDB = FALSE]
  /\ UNCHANGED <<homeChk, deviceLog, lock>>
  /\ UNCHANGED <<createVars, priceVars>>

\* handleCurrentWalletAssetsMigration throws: the error modal is shown.
HomeMigrateFail ==
  /\ mig.pc = "running"
  /\ mig' = [mig EXCEPT !.pc = "idle"]
  /\ home' = [home EXCEPT !.isLedgerCreateAssetErrorModalVisible = TRUE,
                          !.fetchingDB = FALSE]
  /\ UNCHANGED <<homeChk, deviceLog, lock>>
  /\ UNCHANGED <<createVars, priceVars>>

\* Continue button of the success modal.
HomeSuccessContinue ==
  /\ home.isLedgerCreateAssetSuccessModalVisible
  /\ home' = [home EXCEPT !.isLedgerCreateAssetSuccessModalVisible = FALSE]
  /\ UNCHANGED <<homeChk, mig, deviceLog, lock>>
  /\ UNCHANGED <<createVars, priceVars>>

\* handleOk / handleCancel of the error modal: the Crypto.org modal opens
\* again.
HomeErrorModalOk ==
  /\ home.isLedgerCreateAssetErrorModalVisible
  /\ mig.count < MaxMigrations
  /\ home' = [home EXCEPT !.isLedgerCreateAssetErrorModalVisible = FALSE,
                          !.isLedgerCroAppConnectModalVisible = TRUE]
  /\ UNCHANGED <<homeChk, mig, deviceLog, lock>>
  /\ UNCHANGED <<createVars, priceVars>>

MigrationNext ==
  \/ HomeEnableClick
  \/ \E kind \in HomeKinds : HomeModalClose(kind) \/ HomeConnectClick(kind)
  \/ HomeCheckCallOk \/ HomeCheckCallFail
  \/ HomeCheckOkDelayDone \/ HomeCheckErrDelayDone
  \/ HomeCosmosTailDone
  \/ HomeMigrateOk \/ HomeMigrateFail
  \/ HomeSuccessContinue \/ HomeErrorModalOk

\* ------------------------------------------------------------------------
\* HomeLayout: session lock

\* Incorrect attempts after which the local database is deleted, and how
\* many attempts before that the warning text is shown (config values,
\* scaled down).
MAX_INCORRECT_ATTEMPTS_ALLOWED == 3
SHOW_WARNING_INCORRECT_ATTEMPTS == 2
\* Password submissions followed in one session.
MaxAttempts == 4

NoLockResult == [valid |-> FALSE, errMsg |-> "none"]

\* The lock state at start-up: the stored counter is whatever earlier sessions
\* left (below the limit), the modal is shown when the app was locked.
InitLock(count, isAppLocked) ==
  [isSessionLockModalVisible |-> isAppLocked,
   lockTimer |-> FALSE,
   incorrectUnlockAttemptsCount |-> count,
   pc |-> "idle",
   isValid |-> FALSE,
   latestIncorrectAttemptCount |-> 0,
   result |-> NoLockResult,
   attempts |-> 0,
   countAtStart |-> count,
   deleteRequests |-> 0,
   deletedInAttempt |-> FALSE,
   restart |-> "none",
   freshAssets |-> "idle"]

\* Lock button of the side bar: the modal is shown 2 s later.
LockButtonClick ==
  /\ lock.restart # "sent"
  /\ ~lock.lockTimer
  /\ lock' = [lock EXCEPT !.lockTimer = TRUE]
  /\ UNCHANGED <<home, homeChk, mig, deviceLog>>
  /\ UNCHANGED <<createVars, priceVars>>

LockTimerFire ==
  /\ lock.restart # "sent"
  /\ lock.lockTimer
  /\ lock' = [lock EXCEPT !.lockTimer = FALSE, !.isSessionLockModalVisible = TRUE]
  /\ UNCHANGED <<home, homeChk, mig, deviceLog>>
  /\ UNCHANGED <<createVars, priceVars>>

\* onCancel of the session-lock modal.
LockCancel ==
  /\ lock.restart # "sent"
  /\ lock.isSessionLockModalVisible
  /\ lock.pc = "idle"
  /\ lock' = [lock EXCEPT !.isSessionLockModalVisible = FALSE]
  /\ UNCHANGED <<home, homeChk, mig, deviceLog>>
  /\ UNCHANGED <<createVars, priceVars>>

\* onValidatePassword is called with the submitted password.
LockValidateStart ==
  /\ lock.restart # "sent"
  /\ lock.isSessionLockModalVisible
  /\ lock.pc = "idle"
  /\ lock.attempts < MaxAttempts
  /\ lock' = [lock EXCEPT !.pc = "check", !.attempts = @ + 1,
                          !.countAtStart = lock.incorrectUnlockAttemptsCount,
                          !.deletedInAttempt = FALSE,
                          !.result = NoLockResult]
  /\ UNCHANGED <<home, homeChk, mig, deviceLog>>
  /\ UNCHANGED <<createVars, priceVars>>

\* secretStoreService.checkIfPasswordIsValid settles.
LockPasswordChecked ==
  /\ lock.pc = "check"
  /\ \E isValid \in BOOLEAN :
       lock' = [lock EXCEPT !.isValid = isValid,
                            !.latestIncorrectAttemptCount = 0,
                            !.pc = IF isValid THEN "reset" ELSE "increment"]
  /\ UNCHANGED <<home, homeChk, mig, deviceLog>>
  /\ UNCHANGED <<createVars, priceVars>>

\* resetIncorrectUnlockAttemptsCount settles and the handler returns valid.
LockResetDone ==
  /\ lock.pc = "reset"
  /\ lock' = [lock EXCEPT !.incorrectUnlockAttemptsCount = 0,
                          !.result = [valid |-> lock.isValid,
                                      errMsg |-> IF lock.isValid THEN "" ELSE "error"],
                          !.pc = IF lock.isValid THEN "success" ELSE "idle"]
  /\ UNCHANGED <<home, homeChk, mig, deviceLog>>
  /\ UNCHANGED <<createVars, priceVars>>

\* incrementIncorrectUnlockAttemptsCountByOne settles.
LockIncrementDone ==
  /\ lock.pc = "increment"
  /\ lock' = [lock EXCEPT !.incorrectUnlockAttemptsCount = @ + 1, !.pc = "get"]
  /\ UNCHANGED <<home, homeChk, mig, deviceLog>>
  /\ UNCHANGED <<createVars, priceVars>>

\* The text of the error an invalid attempt returns.
LockErrorText(latest) ==
  IF latest >= MAX_INCORRECT_ATTEMPTS_ALLOWED - SHOW_WARNING_INCORRECT_ATTEMPTS
  THEN "errorSelfDestruct" ELSE "error"

\* Variant: the database is deleted only above the limit.
LockGetDone_Above ==
  /\ lock.pc = "get"
  /\ LET latest == lock.incorrectUnlockAttemptsCount
         delete == latest > MAX_INCORRECT_ATTEMPTS_ALLOWED
     IN lock' = [lock EXCEPT
                   !.latestIncorrectAttemptCount = latest,
                   !.deleteRequests = IF delete THEN @ + 1 ELSE @,
                   !.deletedInAttempt = delete,
                   !.result = [valid |-> FALSE, errMsg |-> LockErrorText(latest)],
                   !.pc = "idle"]
  /\ UNCHANGED <<home, homeChk, mig, deviceLog>>
  /\ UNCHANGED <<createVars, priceVars>>

\* getIncorrectUnlockAttemptsCount settles: at the limit the deletion of the
\* database NeDB is requested; the handler returns invalid with its text.
LockGetDone ==
  /\ lock.pc = "get"
  /\ LET latest == lock.incorrectUnlockAttemptsCount
         delete == latest >= MAX_INCORRECT_ATTEMPTS_ALLOWED
     IN lock' = [lock EXCEPT
                   !.latestIncorrectAttemptCount = latest,
                   !.deleteRequests = IF delete THEN @ + 1 ELSE @,
                   !.deletedInAttempt = delete,
                   !.result = [valid |-> FALSE, errMsg |-> LockErrorText(latest)],
                   !.pc = "idle"]
  /\ UNCHANGED <<home, homeChk, mig, deviceLog>>
  /\ UNCHANGED <<createVars, priceVars>>

\* deleteDBRequest.onsuccess: the restart timer of 3 s is set.
LockDeleteSucceeded ==
  /\ lock.deleteRequests > 0
  /\ lock.restart = "none"
  /\ lock' = [lock EXCEPT !.restart = "timer"]
  /\ UNCHANGED <<home, homeChk, mig, deviceLog>>
  /\ UNCHANGED <<createVars, priceVars>>

\* The restart timer fires: ipcRenderer.send('restart_app').
LockRestartTimer ==
  /\ lock.restart = "timer"
  /\ lock' = [lock EXCEPT !.restart = "sent"]
  /\ UNCHANGED <<home, homeChk, mig, deviceLog>>
  /\ UNCHANGED <<createVars, priceVars>>

\* onSuccess of the session-lock modal: the modal is hidden and
\* onWalletDecryptFinishCreateFreshAssets starts.
LockOnSuccess ==
  /\ lock.restart # "sent"
  /\ lock.pc = "success"
  /\ lock.freshAssets = "idle"
  /\ lock' = [lock EXCEPT !.pc = "idle", !.isSessionLockModalVisible = FALSE,
                          !.freshAssets = "running"]
  /\ home' = [home EXCEPT !.fetchingDB = TRUE, !.inputPasswordVisible = FALSE]
  /\ UNCHANGED <<homeChk, mig, deviceLog>>
  /\ UNCHANGED <<createVars, priceVars>>

\* onWalletDecryptFinishCreateFreshAssets ends: fetchingDB is cleared when
\* neither decryptPhrase nor the migration threw.
LockFreshAssetsDone ==
  /\ lock.freshAssets = "running"
  /\ lock' = [lock EXCEPT !.freshAssets = "idle"]
  /\ \E ok \in BOOLEAN :
       home' = IF ok THEN [home EXCEPT !.fetchingDB = FALSE] ELSE home
  /\ UNCHANGED <<homeChk, mig, deviceLog>>
  /\ UNCHANGED <<createVars, priceVars>>

LockNext ==
  \/ LockButtonClick \/ LockTimerFire \/ LockCancel
  \/ LockValidateStart \/ LockPasswordChecked
  \/ LockResetDone \/ LockIncrementDone \/ LockGetDone
  \/ LockDeleteSucceeded \/ LockRestartTimer
  \/ LockOnSuccess \/ LockFreshAssetsDone

InitHomeState ==
  /\ home = InitHome(LEDGER_WALLET_TYPE)
  /\ homeChk = NoHomeChk
  /\ mig = NoMigration
  /\ deviceLog = << >>
  /\ lock = InitLock(0, FALSE)

InitPrice == InitCreateState /\ InitPriceState /\ InitHomeState

SpecPrice == InitPrice /\ [][NextPrice]_vars

InitCreate == InitCreateState /\ InitPriceState /\ InitHomeState

SpecCreate == InitCreate /\ [][NextCreate]_vars

\* The 100 ms timers of the poll loops fire: a pending delay(100) resolves.
SpecCreateLive ==
  InitCreate /\ [][NextCreate]_vars /\ WF_vars(CoreEthTick) /\ WF_vars(CoreCosmosTick)

\* A step of a running onWalletCreateFinishCore: an awaited call settles or
\* a timer of the run fires.
RunStep ==
  \/ CoreCreateOk \/ CoreCreateFail
  \/ CoreCroOk \/ CoreCroFail
  \/ CoreEthTick \/ CoreEthOk \/ CoreEthFail \/ CoreEthDelayDone
  \/ CoreCosmosTick \/ CoreCosmosOk \/ CoreCosmosFail
  \/ CoreSaveOk \/ CoreSaveFail

\* A step of a running Connect check: its timer fires or its device call
\* settles.
CheckStep ==
  \/ CheckStart \/ CheckCallOk \/ CheckCallFail
  \/ CheckOkDelayDone \/ CheckErrDelayDone \/ CheckCroTailDone

\* The creation sequence when every awaited call settles and every timer
\* fires.
SpecCreateFair ==
  InitCreate /\ [][NextCreate]_vars /\ WF_vars(RunStep) /\ WF_vars(CheckStep)

\* HomeLayout starts with a Ledger or a normal wallet that needs asset
\* creation.
InitMigration ==
  /\ InitCreateState
  /\ InitPriceState
  /\ \E walletType \in {LEDGER_WALLET_TYPE, NORMAL_WALLET_TYPE} :
       home = InitHome(walletType)
  /\ homeChk = NoHomeChk
  /\ mig = NoMigration
  /\ deviceLog = << >>
  /\ lock = InitLock(0, FALSE)

SpecMigration == InitMigration /\ [][MigrationNext]_vars

\* HomeLayout starts with the counter of incorrect attempts earlier sessions
\* left, locked or not.
InitSessionLock ==
  /\ InitCreateState
  /\ InitPriceState
  /\ \E walletType \in {LEDGER_WALLET_TYPE, NORMAL_WALLET_TYPE} :
       home = InitHome(walletType)
  /\ homeChk = NoHomeChk
  /\ mig = NoMigration
  /\ deviceLog = << >>
  /\ \E count \in 0..(MAX_INCORRECT_ATTEMPTS_ALLOWED - 1), isAppLocked \in BOOLEAN :
       lock = InitLock(count, isAppLocked)

SpecLock == InitSessionLock /\ [][LockNext]_vars


\* ------------------------------------------------------------------------
\* Properties of the creation run (SpecCreate)

\* The fixed chain order of the derivation steps.
StepOrder == <<GetAddressCro, GetEthAddress, GetAddressCosmos>>

\* The device calls of the run that are in flight.
CoreInFlight == {c \in inflight : c.by = "core"}

DeviceSteps == {"cro", "eth", "cosmos"}

\* C1: in a Ledger creation run the device calls are issued in the order
\* getAddress(CRYPTO_ORG), getEthAddress, getAddress(COSMOS_HUB): what has been
\* issued is always a prefix of that order, a finished run has issued all
\* three, and a call is issued only when every earlier call has settled.
C1_DeviceCallOrder ==
  /\ Len(issued) <= Len(StepOrder)
  /\ issued = SubSeq(StepOrder, 1, Len(issued))
  /\ settled <= Len(issued)
  /\ Len(issued) <= settled + 1
  /\ CoreInFlight = IF settled < Len(issued)
                    THEN {DeviceCall("core", issued[Len(issued)])} ELSE {}
  /\ (corePc = "done" /\ targetWalletType = LEDGER_WALLET_TYPE) => issued = StepOrder

\* A Ledger run that finished after its three device calls.
C1_Witness ==
  /\ corePc = "done"
  /\ targetWalletType = LEDGER_WALLET_TYPE
  /\ issued = StepOrder
  /\ settled = 3

\* C2: at most one device call is in flight at any moment, whoever issued it
\* (the run or a Connect check).
C2_OneDeviceCallInFlight == Cardinality(inflight) <= 1

\* Number of steps that succeeded before the failing step.
StepsBefore(step) ==
  CASE step = "cro" -> 0
    [] step = "eth" -> 1
    [] step = "cosmos" -> 2

\* The address an asset must carry when the first n steps have succeeded.
ExpectedAddress(a, n) ==
  IF a.chainName = CRYPTO_ORG /\ n >= 1 THEN derived[1]
  ELSE IF a.chainName \in {CRONOS, ETHEREUM} /\ n >= 2 THEN derived[2]
  ELSE IF a.chainName = COSMOS_HUB /\ n >= 3 THEN derived[3]
  ELSE ""

\* C3: when the device call of step k has thrown, the run has stopped: it has
\* issued the calls up to step k once each and nothing later, none is in
\* flight, and exactly the assets of the steps before k (and, after step 1,
\* wallet.address) carry the derived address while all others are untouched.
C3_HaltOnFailure ==
  failedAt \in DeviceSteps =>
    LET n == StepsBefore(failedAt) IN
      /\ corePc = "failed"
      /\ issued = SubSeq(StepOrder, 1, n + 1)
      /\ settled = n + 1
      /\ CoreInFlight = {}
      /\ Len(derived) = n
      /\ \A k \in 1..Len(assets) : assets[k].address = ExpectedAddress(assets[k], n)
      /\ walletAddress = IF n >= 1 THEN derived[1] ELSE ""

\* The EVM step failed after the Crypto.org step returned an address.
C3_Witness ==
  /\ failedAt = "eth"
  /\ issued = <<GetAddressCro, GetEthAddress>>
  /\ walletAddress = "cro1"
  /\ assets[1].address = "cro1"
  /\ assets[2].address = ""
  /\ assets[4].address = ""

\* C4: once the three device calls of a Ledger run have each returned a
\* non-empty address, the Crypto.org asset, every EVM asset and the Cosmos Hub
\* asset carry the non-empty address derived for their chain, and
\* wallet.address is the Crypto.org asset's address.
C4_AllAddressesDerived ==
  (/\ targetWalletType = LEDGER_WALLET_TYPE
   /\ Len(derived) = 3
   /\ \A j \in 1..3 : derived[j] # "")
  => /\ Len(assets) = Len(DefaultAssets)
     /\ \A k \in 1..Len(assets) :
          /\ assets[k].address = ExpectedAddress(assets[k], 3)
          /\ assets[k].address # ""
     /\ \E k \in 1..Len(assets) :
          /\ assets[k].chainName = CRYPTO_ORG
          /\ walletAddress = assets[k].address

\* A Ledger run finished with three non-empty addresses.
C4_Witness ==
  /\ corePc = "done"
  /\ targetWalletType = LEDGER_WALLET_TYPE
  /\ derived = <<"cro1", "0x1", "cosmos1">>
  /\ saved = assets

\* C5: in a Ledger run saveAssets is called only after the three device calls
\* have returned; when a device call has thrown, saveAssets was not called and
\* the wallet was not published.
C5_SaveOnlyAfterAllSteps ==
  /\ (targetWalletType = LEDGER_WALLET_TYPE /\ saveCalled) =>
       (issued = StepOrder /\ settled = 3 /\ Len(derived) = 3 /\ failedAt \notin DeviceSteps)
  /\ failedAt \in DeviceSteps => (~saveCalled /\ ~published /\ saved = << >>)
  /\ published => saveCalled

\* saveAssets has been called in a Ledger run and has not yet resolved.
C5_Witness ==
  /\ targetWalletType = LEDGER_WALLET_TYPE
  /\ corePc = "save"
  /\ saveCalled
  /\ ~published


\* ------------------------------------------------------------------------
\* Properties of the price resolver (SpecPrice)

CallIds == 1..MaxCalls

\* The call has got past the directory: its candidates are known.
PastDirectory(call) ==
  call.pc \in {"cands", "rate", "prices"} \/ (call.pc = "done" /\ call.failure # "directory")

\* Every candidate fetch of the call has answered.
AllCandidatesAnswered(call) ==
  Len(call.cands) >= 1 /\ Len(call.responses) = Len(call.cands)

\* Number of directory entries listed for a symbol.
DirectoryCount(mainnetSymbol) ==
  Cardinality({k \in 1..Len(Directory) : Directory[k].symbol = mainnetSymbol})

\* C6: getAssetPrice never throws; it returns a record carrying
\* asset.mainnetSymbol, the requested currency and asset.assetType, and after
\* any internal failure (directory fetch, candidate fetch, no match, non-200
\* status, exchange rate) price and dailyChange are the empty string.
C6_GetAssetPriceNeverThrows ==
  \A c \in CallIds :
    LET call == calls[c] IN
      call.op = "getAssetPrice" =>
        /\ call.outcome # "threw"
        /\ call.pc = "done" =>
             /\ call.outcome = "returned"
             /\ call.result.kind = "AssetMarketPrice"
             /\ call.result.assetSymbol = call.asset.mainnetSymbol
             /\ call.result.currency = call.currency
             /\ call.result.assetType = call.asset.assetType
             /\ call.failure # "none" =>
                  (call.result.price = "" /\ call.result.dailyChange = "")

\* A getAssetPrice call whose selected candidate had a non-200 status returned
\* the empty-price record.
C6_Witness ==
  \E c \in CallIds :
    /\ calls[c].op = "getAssetPrice"
    /\ calls[c].pc = "done"
    /\ calls[c].failure = "status"
    /\ calls[c].outcome = "returned"
    /\ calls[c].result.price = ""

\* C7: a getTokenSlug call that finds a non-empty cache entry for the asset
\* identifier returns that entry and issues neither the directory fetch nor any
\* per-candidate fetch.
C7_CacheHitNoNetwork ==
  \A c \in CallIds :
    LET call == calls[c] IN
      (call.op = "getTokenPrices" /\ call.cachedSlug # "") =>
        /\ call.slug = call.cachedSlug
        /\ call.nDir = 0
        /\ call.nCand = 0
        /\ call.cands = << >>
        /\ call.responses = << >>

\* A getTokenPrices call started with a cached slug and returned.
C7_Witness ==
  \E c \in CallIds :
    /\ calls[c].op = "getTokenPrices"
    /\ calls[c].cachedSlug = "vvs-finance"
    /\ calls[c].slug = "vvs-finance"
    /\ calls[c].pc = "done"
    /\ calls[c].outcome = "returned"

C9_UsdNeverCallsRate ==
  \A c \in CallIds :
    LET call == calls[c] IN
      call.op = "getAssetPrice" =>
        /\ call.currency = "USD" => (call.nRate = 0 /\ call.pc # "rate")
        /\ call.nRate <= 1
        /\ call.nRate > 0 =>
             /\ call.pending = {}
             /\ call.selected \in 1..Len(call.responses)
             /\ call.responses[call.selected].status = 200
             /\ call.responses[call.selected].data.slug \in
                  {call.cands[k] : k \in 1..Len(call.cands)}
        /\ (call.currency = "USD" /\ call.pc = "done" /\ call.failure = "none") =>
             call.result.price = ToString(call.responses[call.selected].data.usd_price)

\* A getAssetPrice(asset, "USD") call returned a price.
C9_Witness ==
  \E c \in CallIds :
    /\ calls[c].op = "getAssetPrice"
    /\ calls[c].currency = "USD"
    /\ calls[c].pc = "done"
    /\ calls[c].failure = "none"
    /\ calls[c].result.price = "8"
    /\ calls[c].nRate = 0

\* C10 as stated: for a CRC_20_TOKEN asset whose symbol is whitelisted,
\* getTokenSlug returns a slug once all its candidate fetches have answered.
C10_WhitelistedSymbolResolves ==
  \A c \in CallIds :
    LET call == calls[c] IN
      (/\ call.op = "getTokenPrices"
       /\ call.asset.assetType = CRC_20_TOKEN
       /\ call.asset.symbol \in WhitelistedCRC20
       /\ AllCandidatesAnswered(call))
      => call.slug \notin {"", "null"}

\* C10 amended: getTokenSlug tests the symbol of the candidate's price record
\* (the feed's symbol for asset.mainnetSymbol), not asset.symbol.  For a
\* CRC_20_TOKEN asset with a candidate whose price record has a whitelisted
\* symbol, and all price records having a non-empty slug, it returns a
\* candidate's slug and caches it, native slug or tag or not.
C10_WhitelistedCandidateResolves ==
  \A c \in CallIds :
    LET call == calls[c] IN
      (/\ call.op = "getTokenPrices"
       /\ call.asset.assetType = CRC_20_TOKEN
       /\ AllCandidatesAnswered(call)
       /\ \E k \in 1..Len(call.responses) :
            call.responses[k].data.symbol \in WhitelistedCRC20
       /\ \A k \in 1..Len(call.responses) : call.responses[k].data.slug # "")
      => /\ call.slug \in {call.cands[k] : k \in 1..Len(call.cands)}
         /\ TokenSlugMap[call.asset.identifier] # ""

\* The whitelisted token resolved although no candidate has a native slug or
\* the cronos-ecosystem tag.
C10_Witness ==
  \E c \in CallIds :
    /\ calls[c].op = "getTokenPrices"
    /\ calls[c].asset.identifier = "vvs-crc20"
    /\ calls[c].cachedSlug = ""
    /\ calls[c].slug = "vvs-finance"
    /\ \A k \in 1..Len(calls[c].responses) :
         /\ calls[c].responses[k].data.slug \notin NativeTokenSlug
         /\ "cronos-ecosystem" \notin TagsOf(calls[c].responses[k].data)

\* The price record of the candidate a finished call selected.
SelectedToken(call) == call.responses[call.selected].data

\* C11: a getAssetPrice(asset, "USD") call that succeeded returned a record
\* with assetSymbol = asset.mainnetSymbol, currency = "USD", assetType =
\* asset.assetType, price the usd_price of the selected candidate and
\* dailyChange its usd_price_change_24h (both as strings); the selected
\* candidate is one of the asset's candidates and answered with status 200.
C11_UsdPriceRecord ==
  \A c \in CallIds :
    LET call == calls[c] IN
      (/\ call.op = "getAssetPrice"
       /\ call.currency = "USD"
       /\ call.pc = "done"
       /\ call.failure = "none")
      => /\ call.selected \in 1..Len(call.responses)
         /\ call.responses[call.selected].status = 200
         /\ SelectedToken(call).symbol = call.asset.mainnetSymbol
         /\ call.result = [kind |-> "AssetMarketPrice",
                           assetSymbol |-> call.asset.mainnetSymbol,
                           currency |-> "USD",
                           dailyChange |-> ToString(SelectedToken(call).usd_price_change_24h),
                           price |-> ToString(SelectedToken(call).usd_price),
                           assetType |-> call.asset.assetType]

\* getAssetPrice(CRO asset, "USD") returned the price record of
\* crypto-com-coin.
C11_Witness ==
  \E c \in CallIds :
    /\ calls[c].op = "getAssetPrice"
    /\ calls[c].asset.identifier = "cro-mainnet"
    /\ calls[c].currency = "USD"
    /\ calls[c].pc = "done"
    /\ calls[c].failure = "none"
    /\ SelectedToken(calls[c]).slug = "crypto-com-coin"
    /\ calls[c].result.assetSymbol = "CRO"
    /\ calls[c].result.price = "8"
    /\ calls[c].result.dailyChange = "2"

\* Positions of the run that belong to the Ledger branch.
LedgerPcs == {"croCall", "ethWait", "ethCall", "ethDelay", "cosmosWait", "cosmosCall"}

C13_OtherMethodsThrow ==
  \A c \in CallIds :
    LET call == calls[c]
        k == FindFirst(call.responses, call.asset.assetType)
    IN
      /\ call.op = "getTokenPrices" =>
           /\ (call.pc = "done") => (call.outcome \in {"returned", "threw"})
           /\ (call.outcome = "threw") <=> (call.failure # "none")
           /\ (call.outcome = "returned") =>
                (call.result = [kind |-> "prices", slug |-> call.slug]
                 /\ call.slug \notin {"", "null"})
           /\ (AllCandidatesAnswered(call) /\ k = 0) =>
                (call.outcome = "threw" /\ call.failure = "noslug" /\ call.slug = "null")
           /\ (call.slug = "null") => (call.outcome = "threw" /\ call.nPrices = 0)
      /\ call.op = "getAssetPrice" =>
           /\ (AllCandidatesAnswered(call) /\ k = 0) =>
                (call.pc = "done" /\ call.failure = "nomatch")
           /\ (AllCandidatesAnswered(call) /\ k > 0 /\ call.responses[k].status # 200) =>
                (call.pc = "done" /\ call.failure = "status" /\ call.nRate = 0)

\* One getTokenPrices call threw for want of a slug and another because of
\* the prices response.
C13_Witness ==
  \E c, d \in CallIds :
    /\ calls[c].op = "getTokenPrices" /\ calls[d].op = "getTokenPrices"
    /\ calls[c].outcome = "threw" /\ calls[c].failure = "noslug"
    /\ calls[c].slug = "null"
    /\ calls[d].outcome = "threw" /\ calls[d].failure = "prices"
    /\ calls[d].slug \notin {"", "null"}

\* The asset with the given identifier.
AssetOf(id) == CHOOSE a \in Assets : a.identifier = id

\* The slugs the directory lists for the asset's mainnetSymbol.
CandidateSlugs(asset) ==
  LET cands == SlugsFor(Directory, asset.mainnetSymbol)
  IN {cands[k] : k \in 1..Len(cands)}

\* C14: SlugCache holds an entry for an identifier only if a getTokenSlug
\* lookup for that identifier selected a candidate, and the entry is the
\* non-empty slug of a candidate of that asset which satisfies the selection
\* predicate; while every lookup for an identifier has returned null the
\* cache has no entry for it, and a call that starts after such a null result
\* runs the lookup again (directory memo or fetch, then one fetch per
\* candidate).
C14_NullNotCached ==
  /\ \A id \in Identifiers :
       /\ TokenSlugMap[id] # "" =>
            /\ [identifier |-> id, slug |-> TokenSlugMap[id]] \in resolved
            /\ TokenSlugMap[id] # "null"
            /\ TokenSlugMap[id] \in CandidateSlugs(AssetOf(id))
            /\ Selects(AssetOf(id).assetType, TokenRecord(TokenSlugMap[id]))
       /\ (\A r \in resolved : r.identifier = id => r.slug = "null") =>
            TokenSlugMap[id] = ""
  /\ \A c \in CallIds :
       LET call == calls[c] IN
         (call.op = "getTokenPrices" /\ call.retry /\ call.cachedSlug = "") =>
           /\ call.nDir = IF call.memoAtStart THEN 0 ELSE 1
           /\ PastDirectory(call) => call.nCand = DirectoryCount(call.asset.mainnetSymbol)

\* After a lookup for bar-crc20 returned null the cache has no entry for it
\* and a later call has fetched the candidates again.
C14_Witness ==
  /\ [identifier |-> "bar-crc20", slug |-> "null"] \in resolved
  /\ TokenSlugMap["bar-crc20"] = ""
  /\ \E c \in CallIds :
       /\ calls[c].op = "getTokenPrices"
       /\ calls[c].asset.identifier = "bar-crc20"
       /\ calls[c].retry
       /\ calls[c].nCand = 1
       /\ calls[c].slug = "null"

\* The call went through loadTokenSlugMap (every call but a getTokenPrices
\* call that found a cached slug).
UsesLoader(call) ==
  call.op = "getAssetPrice" \/ (call.op = "getTokenPrices" /\ call.cachedSlug = "")

\* C15: a loadTokenSlugMap call that starts while the memo is non-empty issues
\* no /all-tokens request and hands the memo on; one that starts while the memo
\* is empty issues exactly one request; a failed fetch throws (so no candidate
\* is fetched) and does not write the memo: as long as no fetch has succeeded
\* the memo is empty, and a call starting then fetches again.
C15_LoadTokenSlugMap ==
  /\ dirLoaded = 0 => tokenSlugMap = << >>
  /\ dirLoaded > 0 => tokenSlugMap = Directory
  /\ \A c \in CallIds :
       LET call == calls[c] IN
         UsesLoader(call) =>
           /\ call.memoAtStart =>
                /\ call.nDir = 0
                /\ call.pc # "dir"
                /\ call.failure # "directory"
                /\ call.cands = SlugsFor(Directory, call.asset.mainnetSymbol)
           /\ ~call.memoAtStart => call.nDir = 1
           /\ call.failure = "directory" =>
                /\ ~call.memoAtStart
                /\ call.pc = "done"
                /\ call.cands = << >>
                /\ call.nCand = 0
                /\ call.op = "getTokenPrices" => call.outcome = "threw"

\* The constructor's fetch and a call's fetch have failed, the memo stayed
\* empty, and another call that started with the empty memo has fetched the
\* directory itself.
C15_Witness ==
  /\ preloadPc = "failed"
  /\ dirLoaded = 1
  /\ \E c, d \in CallIds :
       /\ calls[c].failure = "directory"
       /\ ~calls[d].memoAtStart
       /\ calls[d].nDir = 1
       /\ PastDirectory(calls[d])
       /\ calls[d].nCand >= 1

\* C16: in every interleaving of the constructor's preload and the calls, at
\* most one /all-tokens fetch succeeds in a session; as every successful
\* fetch assigns the memo, this is also what keeps a non-empty memo from
\* being written again.
C16_DirectoryFetchedOnce == dirLoaded <= 1

\* The first candidate, in the order the directory lists them, whose price
\* record satisfies the selection predicate ("" if none does).
DirectoryFirst(call) ==
  LET sel == {k \in 1..Len(call.cands) :
                Selects(call.asset.assetType, TokenRecord(call.cands[k]))}
  IN IF sel = {} THEN ""
     ELSE call.cands[CHOOSE k \in sel : \A j \in sel : k <= j]

\* C17: when several candidates satisfy the selection predicate, getTokenSlug
\* and getTokenPriceFromCryptoCom select the one that comes first in the
\* directory's order, whatever the order in which the per-candidate fetches
\* completed.
C17_DirectoryOrderWins ==
  \A c \in CallIds :
    LET call == calls[c] IN
      /\ (call.op = "getTokenPrices" /\ call.cachedSlug = ""
          /\ call.slug \notin {"", "null"}) =>
           call.slug = DirectoryFirst(call)
      /\ (call.op = "getAssetPrice" /\ call.selected > 0) =>
           SelectedToken(call).slug = DirectoryFirst(call)

\* The message the claim expects for a thrown error text.
ExpectedMessage(err) == IF err = "conditions" THEN "mismatch" ELSE "generic"

\* C18: whenever a device call throws in the creation run or in a Connect
\* check, the message shown to the user is the app-mismatch message when
\* detectConditionsError holds of the error text and the generic message
\* otherwise.  (The generic error modal of the run counts as the generic
\* message.)
C18_TwoMessages ==
  /\ (failedAt \in DeviceSteps /\ thrown = "conditions") => notification = "mismatch"
  /\ chk.pc = "errDelay" => chk.message = ExpectedMessage(chk.err)

\* The positions of the two app-switch waits.
WaitPcs == {"ethWait", "cosmosWait"}

\* C19: each app-switch wait performs at most PollLimit ticks (600 in the
\* source); a tick leaves the wait running only if the flag is still set and
\* the limit is not reached, so the wait ends at the first tick that finds
\* the flag cleared (no further tick passes) or at the last tick; and every
\* wait ends.
C19_WaitBoundedAndEnds ==
  /\ [](corePc \in WaitPcs => ticks < PollLimit)
  /\ [][(corePc \in WaitPcs /\ ticks' # ticks) =>
          /\ ticks' = ticks + 1
          /\ (corePc' = corePc) <=> (waitFlag /\ ticks' < PollLimit)
          /\ (corePc' # corePc) => corePc' \in {"ethCall", "cosmosCall"}]_vars
  /\ [][(corePc \in WaitPcs /\ corePc' # corePc) => ticks' = ticks + 1]_vars
  /\ (corePc = "ethWait") ~> (corePc # "ethWait")
  /\ (corePc = "cosmosWait") ~> (corePc # "cosmosWait")

\* The Cosmos wait ended at its first tick, the flag having been cleared.
C19_Witness ==
  /\ corePc = "cosmosCall"
  /\ ticks = 1
  /\ ~waitFlag
  /\ issued = StepOrder

\* The device call of the step a wait belongs to.
StepCallOf(pc) == IF pc = "ethWait" THEN GetEthAddress ELSE GetAddressCosmos

\* C20: a wait never aborts or skips its step.  No step takes the run from a
\* wait anywhere but to the device call of that step, and the step that ends
\* the wait issues that call, whether the flag was cleared with the modal left
\* open (OK, Connect), with the modal closed (cancel, dismissal) or not at all
\* (all ticks elapsed).
C20_WaitNeverSkipsCall ==
  [][(corePc \in WaitPcs /\ corePc' # corePc) =>
       /\ corePc' = (IF corePc = "ethWait" THEN "ethCall" ELSE "cosmosCall")
       /\ issued' = Append(issued, StepCallOf(corePc))
       /\ DeviceCall("core", StepCallOf(corePc)) \in inflight'
       /\ DeviceCall("core", StepCallOf(corePc)) \notin inflight]_vars

\* All ticks of the Ethereum wait elapsed with the flag never cleared, and
\* getEthAddress has been issued.
C20_Witness ==
  /\ corePc = "ethCall"
  /\ waitFlag
  /\ ticks = PollLimit
  /\ isEthModalVisible
  /\ issued = <<GetAddressCro, GetEthAddress>>
  /\ DeviceCall("core", GetEthAddress) \in inflight

\* C21: in one getTokenSlug (and getTokenPriceFromCryptoCom) call the fetches
\* of all candidates are issued together, before any response is handled; the
\* selection has run only when every candidate fetch has answered, and a
\* step that changes a SlugCache entry is the step of a getTokenSlug call for
\* that identifier whose candidates have all answered and which selected the
\* written slug.
C21_SelectAfterAllComplete ==
  /\ [](\A c \in CallIds :
         LET call == calls[c] IN
           /\ call.pc = "cands" =>
                /\ call.nCand = Len(call.cands)
                /\ Len(call.responses) + Cardinality(call.pending) = Len(call.cands)
                /\ call.slug = "" /\ call.selected = 0
           /\ (UsesLoader(call) /\ (call.slug # "" \/ call.selected > 0)) =>
                /\ call.pending = {}
                /\ Len(call.responses) = Len(call.cands))
  /\ [][\A id \in Identifiers :
          TokenSlugMap'[id] # TokenSlugMap[id] =>
            \E c \in CallIds :
              /\ calls'[c] # calls[c]
              /\ calls'[c].op = "getTokenPrices"
              /\ calls'[c].asset.identifier = id
              /\ calls'[c].pending = {}
              /\ Len(calls'[c].cands) >= 1
              /\ Len(calls'[c].responses) = Len(calls'[c].cands)
              /\ calls'[c].slug = TokenSlugMap'[id]]_vars

\* A lookup over two candidates selected and cached a slug after both
\* responses were in.
C21_Witness ==
  \E c \in CallIds :
    /\ calls[c].op = "getTokenPrices"
    /\ calls[c].cachedSlug = ""
    /\ Len(calls[c].cands) = 2
    /\ Len(calls[c].responses) = 2
    /\ calls[c].pending = {}
    /\ calls[c].slug = "vvs-v1"
    /\ TokenSlugMap[calls[c].asset.identifier] = "vvs-v1"

\* C22: once SlugCache holds a slug for an identifier, no step changes that
\* entry, also when getTokenSlug calls for the identifier overlap.
C22_CacheEntryNeverChanges ==
  [][\A id \in Identifiers :
       TokenSlugMap[id] # "" => TokenSlugMap'[id] = TokenSlugMap[id]]_vars

\* The position of the run at which the device call for an asset's chain is
\* awaited.
StepPcOf(a) ==
  CASE a.chainName = CRYPTO_ORG -> "croCall"
    [] a.chainName \in {CRONOS, ETHEREUM} -> "ethCall"
    [] a.chainName = COSMOS_HUB -> "cosmosCall"

\* C23: in a creation run an asset's address changes only in the step of its
\* own chain and only from the empty string, so it is written at most once
\* and no step changes what an earlier step wrote: the EVM step leaves the
\* TENDERMINT assets and wallet.address as they are, the Cosmos Hub step
\* leaves the Crypto.org asset, the EVM assets and wallet.address as they are.
C23_AddressesWrittenOnce ==
  [][/\ (corePc = "ethCall" /\ corePc' = "ethDelay") =>
          /\ walletAddress' = walletAddress
          /\ \A k \in 1..Len(assets) :
               assets[k].assetType = TENDERMINT => assets'[k] = assets[k]
     /\ (corePc = "cosmosCall" /\ corePc' = "save") =>
          /\ walletAddress' = walletAddress
          /\ \A k \in 1..Len(assets) :
               (IsCroAsset(assets[k]) \/ IsEvmAsset(assets[k])) => assets'[k] = assets[k]
     /\ (targetWalletType = LEDGER_WALLET_TYPE /\ corePc \in LedgerPcs) =>
          /\ Len(assets') = Len(assets)
          /\ \A k \in 1..Len(assets) :
               assets'[k] # assets[k] =>
                 /\ assets[k].address = ""
                 /\ assets'[k] = [assets[k] EXCEPT !.address = assets'[k].address]
                 /\ corePc = StepPcOf(assets[k])
          /\ walletAddress' # walletAddress => (corePc = "croCall" /\ walletAddress = "")]_vars

\* The three steps have each written their own assets.
C23_Witness ==
  /\ targetWalletType = LEDGER_WALLET_TYPE
  /\ corePc = "save"
  /\ walletAddress = "cro1"
  /\ assets[1].address = "cro1"
  /\ assets[2].address = "0x1"
  /\ assets[3].address = "0x1"
  /\ assets[4].address = "cosmos1"

\* The device call of a Connect check of the given kind returns in this step.
CheckOkStep(kind) ==
  /\ chk.kind = kind
  /\ chk.pc = "call"
  /\ chk'.pc = "okDelay"
  /\ DeviceCall("check", CheckFn(kind)) \in inflight
  /\ DeviceCall("check", CheckFn(kind)) \notin inflight'

\* The device call fn of the run returns in this step.
CoreOkStep(fn) ==
  /\ DeviceCall("core", fn) \in inflight
  /\ DeviceCall("core", fn) \notin inflight'
  /\ Len(derived') = Len(derived) + 1

\* C24: a step-succeeded indication (isLedgerCroAppConnected,
\* isLedgerEthAppConnected, isLedgerCosmosAppConnected) becomes true only in a
\* step in which a device call for that chain's app returns successfully,
\* never while that call is pending or before it is issued.
C24_IndicationAfterSuccess ==
  [][/\ (~isLedgerCroAppConnected /\ isLedgerCroAppConnected') => CheckOkStep("cro")
     /\ (~isLedgerEthAppConnected /\ isLedgerEthAppConnected') =>
          (CoreOkStep(GetEthAddress) \/ CheckOkStep("eth"))
     /\ (~isLedgerCosmosAppConnected /\ isLedgerCosmosAppConnected') =>
          (CoreOkStep(GetAddressCosmos) \/ CheckOkStep("cosmos"))]_vars

\* C25: when the request of one candidate is rejected (a step of a call that
\* awaits its candidates in which no response is pushed) the whole resolution
\* fails, also when an answered candidate would have been selected:
\* getTokenSlug throws out of getTokenPrices, getTokenPriceFromCryptoCom throws
\* and getAssetPrice returns the empty-price record; no slug is selected, no
\* later request is issued and SlugCache is not written.
C25_OneCandidateFailureFailsAll ==
  /\ [][\A c \in CallIds :
          (calls[c].pc = "cands" /\ calls'[c] # calls[c]
           /\ calls'[c].responses = calls[c].responses) =>
            /\ calls'[c].pc = "done"
            /\ calls'[c].failure = "candidate"
            /\ calls'[c].slug = ""
            /\ calls'[c].selected = 0
            /\ calls'[c].nPrices = 0
            /\ calls'[c].nRate = 0
            /\ calls'[c].op = "getTokenPrices" => calls'[c].outcome = "threw"
            /\ calls'[c].op = "getAssetPrice" =>
                 /\ calls'[c].outcome = "returned"
                 /\ calls'[c].result =
                      AssetMarketPrice(calls[c].asset, calls[c].currency, "", "")
            /\ TokenSlugMap' = TokenSlugMap
            /\ resolved' = resolved]_vars
  /\ [](\A c \in CallIds :
          calls[c].failure = "candidate" =>
            (calls[c].pc = "done" /\ calls[c].slug = "" /\ calls[c].selected = 0))

\* A getTokenPrices call threw and a getAssetPrice call returned the empty
\* record, each after one candidate had answered with a record the selection
\* accepts and the request of the other one was rejected; SlugCache has no
\* entry for the asset.
C25_Witness ==
  \E c, d \in CallIds :
    /\ calls[c].op = "getTokenPrices" /\ calls[d].op = "getAssetPrice"
    /\ calls[c].failure = "candidate" /\ calls[d].failure = "candidate"
    /\ Len(calls[c].cands) = 2 /\ Len(calls[c].responses) = 1
    /\ Len(calls[d].cands) = 2 /\ Len(calls[d].responses) = 1
    /\ FindFirst(calls[c].responses, calls[c].asset.assetType) = 1
    /\ FindFirst(calls[d].responses, calls[d].asset.assetType) = 1
    /\ calls[c].outcome = "threw"
    /\ calls[d].outcome = "returned" /\ calls[d].result.price = ""
    /\ TokenSlugMap[calls[c].asset.identifier] = ""

\* The last entry of the device log is a successful call of the given step.
LastCallOk(kind) ==
  /\ Len(deviceLog) > 0
  /\ deviceLog[Len(deviceLog)].kind = kind
  /\ deviceLog[Len(deviceLog)].ok

\* C26: in the HomeLayout Ledger migration handleCurrentWalletAssetsMigration
\* is invoked (by migrateLedgerAsset) only when the last three device calls
\* were the Crypto.org, the EVM and the Cosmos Hub call, in that order and all
\* successful, and it receives the addresses those three calls returned; the
\* Ethereum modal opens only right after a successful Crypto.org call and the
\* Cosmos modal only right after a successful EVM call; a failed call is
\* never followed by the migration without the three calls succeeding again.
C26_MigrationAfterThreeSteps ==
  /\ [][mig'.count # mig.count =>
          LET n == Len(deviceLog) IN
            /\ home.walletType = LEDGER_WALLET_TYPE
            /\ n >= 3
            /\ deviceLog[n - 2].kind = "cro" /\ deviceLog[n - 2].ok
            /\ deviceLog[n - 1].kind = "eth" /\ deviceLog[n - 1].ok
            /\ deviceLog[n].kind = "cosmos" /\ deviceLog[n].ok
            /\ mig'.pc = "running"
            /\ mig'.args = <<"", deviceLog[n - 2].address, deviceLog[n - 1].address,
                             deviceLog[n].address>>]_vars
  /\ [][((~home.isLedgerEthAppConnectModalVisible
            /\ home'.isLedgerEthAppConnectModalVisible) => LastCallOk("cro"))
        /\ ((~home.isLedgerCosmosAppConnectModalVisible
             /\ home'.isLedgerCosmosAppConnectModalVisible) => LastCallOk("eth"))]_vars
  /\ [](mig.count <= Cardinality({i \in 1..Len(deviceLog) :
                                    deviceLog[i].kind = "cosmos" /\ deviceLog[i].ok}))

\* A second migration runs after the first one failed; it was handed the
\* Crypto.org address of the second round, which differs from the first.
C26_Witness ==
  /\ mig.count = 2
  /\ mig.pc = "running"
  /\ Len(deviceLog) = 6
  /\ deviceLog[1].address = "cro1"
  /\ deviceLog[4].address = ""
  /\ mig.args = <<"", "", "0x1", "cosmos1">>

\* The run has ended in its try block or in its catch block.
RunEnded == corePc \in {"done", "failed"}

\* C27: when every awaited call settles, every Ledger creation run (every
\* execution of onWalletCreateFinishCore with walletType Ledger) ends, and it
\* ends by showing exactly one of the success modal and the error modal.
C27_RunEndsWithOneModal ==
  /\ [][(~RunEnded /\ RunEnded') =>
          /\ isModalVisible' # isErrorModalVisible'
          /\ isModalVisible' <=> corePc' = "done"]_vars
  /\ (targetWalletType = LEDGER_WALLET_TYPE) ~> RunEnded

\* C28: createLoading is false whenever no creation activity is in progress,
\* that is whenever neither onWalletCreateFinishCore nor a Connect check is
\* running: each of them that set it to true has set it back to false.
C28_CreateLoadingNotStuck ==
  (~CoreRunning /\ chk.kind = "none") => ~createLoading

\* C29: waitFlag does not leak from the Ethereum step into the Cosmos Hub
\* wait.  The Cosmos wait starts with the flag set and the Ethereum modal
\* closed, whatever was done on the Ethereum modal; during the wait the
\* Ethereum modal stays closed and the flag is cleared only by an action on
\* the open Cosmos modal (OK, Cancel, Connect); and the wait ends before its
\* last tick only when the flag has been cleared in that way.
C29_WaitFlagDoesNotLeak ==
  /\ [][(corePc # "cosmosWait" /\ corePc' = "cosmosWait") =>
          (waitFlag' /\ ~isEthModalVisible' /\ ticks' = 0)]_vars
  /\ [](corePc = "cosmosWait" => ~isEthModalVisible)
  /\ [][(corePc = "cosmosWait" /\ waitFlag /\ ~waitFlag') =>
          /\ isCosmosModalVisible
          /\ corePc' = "cosmosWait"
          /\ isEthModalVisible' = isEthModalVisible
          /\ \/ (chk' = chk /\ isCosmosModalVisible')
             \/ (chk' = chk /\ ~isCosmosModalVisible')
             \/ (chk.kind = "none" /\ chk'.kind = "cosmos")]_vars
  /\ [][(corePc = "cosmosWait" /\ corePc' # "cosmosWait" /\ ticks' < PollLimit) =>
          ~waitFlag]_vars

\* Connect was clicked on the Ethereum modal (its check is still running,
\* the click had cleared the flag) and the Cosmos wait, begun afterwards, is
\* at its last tick with the flag still set.
C29_Witness ==
  /\ corePc = "cosmosWait"
  /\ chk.kind = "eth"
  /\ waitFlag
  /\ ticks = PollLimit - 1

\* onValidatePassword returns in this step.
LockReturns == lock.pc \in {"reset", "get"} /\ lock'.pc \in {"idle", "success"}

\* C30: in the session-lock password check the stored counter changes only
\* by an invalid password adding one and by a valid password setting it to
\* zero; a check of an invalid password returns with the counter one above
\* its value at the start and has requested the deletion of the local
\* database exactly if the counter is then at least
\* MAX_INCORRECT_ATTEMPTS_ALLOWED; a check of a valid password returns with
\* the counter at zero and requests no deletion; and the restart is sent only
\* after a deletion was requested.
C30_LockCounterAndSelfDestruct ==
  /\ [][lock'.incorrectUnlockAttemptsCount # lock.incorrectUnlockAttemptsCount =>
          \/ /\ lock.pc = "increment" /\ ~lock.isValid
             /\ lock'.incorrectUnlockAttemptsCount = lock.incorrectUnlockAttemptsCount + 1
          \/ /\ lock.pc = "reset" /\ lock.isValid
             /\ lock'.incorrectUnlockAttemptsCount = 0]_vars
  /\ [][LockReturns =>
          IF lock.isValid
          THEN /\ lock'.incorrectUnlockAttemptsCount = 0
               /\ lock'.deleteRequests = lock.deleteRequests
               /\ lock'.result = [valid |-> TRUE, errMsg |-> ""]
          ELSE /\ lock'.incorrectUnlockAttemptsCount = lock.countAtStart + 1
               /\ lock'.deleteRequests =
                    IF lock'.incorrectUnlockAttemptsCount >= MAX_INCORRECT_ATTEMPTS_ALLOWED
                    THEN lock.deleteRequests + 1 ELSE lock.deleteRequests
               /\ ~lock'.result.valid
               /\ lock'.result.errMsg # ""]_vars
  /\ [][lock'.deleteRequests # lock.deleteRequests =>
          (~lock.isValid /\ lock.pc = "get")]_vars
  /\ [](lock.restart # "none" => lock.deleteRequests > 0)

\* The last of the followed attempts was invalid and brought the counter to
\* the limit: the deletion has been requested once and the warning text
\* returned.
C30_Witness ==
  /\ lock.attempts = MaxAttempts
  /\ lock.pc = "idle"
  /\ ~lock.isValid
  /\ lock.incorrectUnlockAttemptsCount = MAX_INCORRECT_ATTEMPTS_ALLOWED
  /\ lock.countAtStart = MAX_INCORRECT_ATTEMPTS_ALLOWED - 1
  /\ lock.deleteRequests = 1
  /\ lock.result.errMsg = "errorSelfDestruct"

====
